---- MODULE Spec2Model ----
(***************************************************************************)
(* Model of virgil-cli's extraction pipeline (run_parse in src/main.rs),   *)
(* the language registry (src/language.rs), the parser wrapper             *)
(* (src/parser.rs) and the C and Rust import extractors                    *)
(* (src/languages/c_lang.rs, src/languages/rust_lang.rs).                  *)
(*                                                                         *)
(* Strings are sequences of one-character strings, so that prefix tests,   *)
(* splitting, trimming and path manipulation are computed as the code      *)
(* computes them.                                                          *)
(***************************************************************************)
EXTENDS Integers, Sequences, FiniteSets, Bags, TLC

(***************************************************************************)
(* Bounds of the model.                                                    *)
(***************************************************************************)
\* at most this many files exist under the root directory
MaxFiles == 2

(***************************************************************************)
(* Option values: None is the empty tuple, Some(x) the 1-tuple.            *)
(***************************************************************************)
None == <<>>
Some(x) == <<x>>
IsSome(o) == o # <<>>
Unwrap(o) == o[1]

(***************************************************************************)
(* String helpers (Rust str methods used by the code).                     *)
(***************************************************************************)
\* str::starts_with
StartsWith(s, p) ==
    /\ Len(s) >= Len(p)
    /\ SubSeq(s, 1, Len(p)) = p

\* str::ends_with
EndsWith(s, p) ==
    /\ Len(s) >= Len(p)
    /\ SubSeq(s, Len(s) - Len(p) + 1, Len(s)) = p

\* str::find(pattern): 1-based index of the first occurrence, 0 when absent
Find(s, p) ==
    LET hits == {i \in 1..(Len(s) - Len(p) + 1) : SubSeq(s, i, i + Len(p) - 1) = p}
    IN IF hits = {} THEN 0 ELSE CHOOSE i \in hits : \A j \in hits : i <= j

\* str::rfind(pattern): 1-based index of the last occurrence, 0 when absent
RFind(s, p) ==
    LET hits == {i \in 1..(Len(s) - Len(p) + 1) : SubSeq(s, i, i + Len(p) - 1) = p}
    IN IF hits = {} THEN 0 ELSE CHOOSE i \in hits : \A j \in hits : i >= j

IsWhitespace(c) == c \in {" ", "\t", "\n"}

RECURSIVE TrimStart(_)
\* str::trim_start
TrimStart(s) ==
    IF s # <<>> /\ IsWhitespace(Head(s)) THEN TrimStart(Tail(s)) ELSE s

RECURSIVE TrimEnd(_)
\* str::trim_end
TrimEnd(s) ==
    IF s # <<>> /\ IsWhitespace(s[Len(s)]) THEN TrimEnd(SubSeq(s, 1, Len(s) - 1)) ELSE s

\* str::trim
Trim(s) == TrimEnd(TrimStart(s))

RECURSIVE Split(_, _)
\* str::split(pattern) collected: the pieces between occurrences of p
Split(s, p) ==
    LET i == Find(s, p)
    IN IF i = 0 THEN <<s>>
       ELSE <<SubSeq(s, 1, i - 1)>> \o Split(SubSeq(s, i + Len(p), Len(s)), p)

\* str::split_once(pattern): None, or Some(<<before, after>>)
SplitOnce(s, p) ==
    LET i == Find(s, p)
    IN IF i = 0 THEN None
       ELSE Some(<<SubSeq(s, 1, i - 1), SubSeq(s, i + Len(p), Len(s))>>)

RECURSIVE Replace(_, _, _)
\* str::replace(from, to) for one-character patterns
Replace(s, from, to) ==
    IF s = <<>> THEN <<>>
    ELSE <<IF Head(s) = from THEN to ELSE Head(s)>> \o Replace(Tail(s), from, to)

\* last element of a non-empty sequence (Iterator::last)
Last(q) == q[Len(q)]

RECURSIVE SumLens(_)
\* the length in bytes of a text given as lines, each ended by a newline
SumLens(q) == IF q = <<>> THEN 0 ELSE Len(Head(q).text) + 1 + SumLens(Tail(q))

(***************************************************************************)
(* Language registry (src/language.rs).  The model carries two of the     *)
(* twelve tags, C (extensions c, h) and Rust (extension rs).               *)
(***************************************************************************)
Language == {"c", "rust"}

\* Language::from_extension
from_extension(ext) ==
    IF ext = <<"c">> \/ ext = <<"h">> THEN Some("c")
    ELSE IF ext = <<"r", "s">> THEN Some("rust")
    ELSE None

\* Language::all_extensions
all_extensions(lang) ==
    IF lang = "c" THEN << <<"c">>, <<"h">> >>
    ELSE << <<"r", "s">> >>

\* Language::all
AllLanguages == <<"c", "rust">>

RECURSIVE FilterMapExt(_)
FilterMapExt(pieces) ==
    IF pieces = <<>> THEN <<>>
    ELSE LET l == from_extension(Trim(Head(pieces)))
         IN (IF IsSome(l) THEN <<Unwrap(l)>> ELSE <<>>) \o FilterMapExt(Tail(pieces))

\* parse_language_filter
parse_language_filter(filter) == FilterMapExt(Split(filter, <<",">>))

(***************************************************************************)
(* Paths (std::path::Path on a Unix host: '/' separates components).       *)
(***************************************************************************)
Root == <<"/", "r">>

\* Path::file_name
file_name(p) ==
    LET i == RFind(p, <<"/">>) IN SubSeq(p, i + 1, Len(p))

\* Path::extension: the part of the file name after its last '.', if the
\* name has a '.' that is not its first character
extension(p) ==
    LET n == file_name(p)
        i == RFind(n, <<".">>)
    IN IF i <= 1 THEN None ELSE Some(SubSeq(n, i + 1, Len(n)))

\* Path::strip_prefix(root).unwrap_or(path)
strip_prefix(p, root) ==
    IF StartsWith(p, root \o <<"/">>) THEN SubSeq(p, Len(root) + 2, Len(p))
    ELSE IF p = root THEN <<>>
    ELSE p

(***************************************************************************)
(* File contents.  A file holds one of a few sample texts, named by an id; *)
(* a text is a sequence of lines and each line carries one syntactic item: *)
(* the grammatical category the concrete-syntax parser gives it, the text  *)
(* the extractor's capture covers and whether a visibility / storage-class *)
(* child is present.  "bin" is a file whose bytes are not valid UTF-8 (or  *)
(* whose permissions deny reading): read_to_string fails on it.            *)
(***************************************************************************)
Line(node, text, vis) == [node |-> node, text |-> text, vis |-> vis]

SrcCA ==
    << Line("preproc_include", <<"<", "x", ".", "h", ">">>, FALSE),
       Line("preproc_include", <<"\"", "x", ".", "h", "\"">>, FALSE),
       Line("comment", <<"/", "*", "c", "*", "/">>, FALSE),
       Line("function_definition", <<"f">>, FALSE),
       Line("comment", <<"/", "/", "d">>, FALSE),
       Line("function_definition", <<"g">>, TRUE),
       Line("preproc_include", <<"\"", "\"">>, FALSE),
       Line("comment", <<"/", "*", "e", "*", "/">>, FALSE),
       Line("enum_specifier", <<>>, FALSE) >>

SrcRA ==
    << Line("use_declaration", <<"c", "r", "a", "t", "e", ":", ":", "a">>, FALSE),
       Line("use_declaration",
            <<"{", "c", "r", "a", "t", "e", ":", ":", "a", ",", " ",
              "s", "t", "d", ":", ":", "b", " ", "a", "s", " ", "c", "}">>, FALSE),
       Line("line_comment", <<"/", "/", "/", "x">>, FALSE),
       Line("function_item", <<"g">>, TRUE),
       Line("block_comment", <<"/", "*", "y", "*", "/">>, FALSE),
       Line("function_item", <<"h">>, FALSE) >>

\* a second C text, one function long: what an editor leaves in a C file it
\* rewrites while a run is in progress
SrcCB ==
    << Line("function_definition", <<"h">>, FALSE) >>

SrcRN ==
    << Line("line_comment", <<"/", "/", "/", "x">>, FALSE) >>

SrcTX ==
    << Line("text", <<"h", "i">>, FALSE), Line("text", <<>>, FALSE) >>

\* the lines of a readable content
Lines(id) ==
    CASE id = "cA" -> SrcCA
      [] id = "cB" -> SrcCB
      [] id = "rA" -> SrcRA
      [] id = "rN" -> SrcRN
      [] id = "tX" -> SrcTX
      [] OTHER -> <<>>

ContentIds == {"cA", "cB", "rA", "rN", "tX", "bin"}

\* the contents a file of a given extension may hold
ContentsOf(ext) ==
    IF ext = Some(<<"c">>) THEN {"cA", "bin"}
    ELSE IF ext = Some(<<"r", "s">>) THEN {"rA", "rN", "bin"}
    ELSE {"tX", "bin"}

\* std::fs::read_to_string: Err for non-UTF-8 / unreadable files
ReadOk(id) == id # "bin"

\* std::fs::metadata(path).len(): the size on disk, readable or not
MetadataLen(id) == IF id = "bin" THEN 4 ELSE SumLens(Lines(id))

\* String::len of the text read
ContentLen(id) == SumLens(Lines(id))

\* str::lines().count()
LineCount(id) == Len(Lines(id))

(***************************************************************************)
(* The concrete-syntax parser (tree-sitter, external).  Parser::parse      *)
(* returns no tree for the designated content "rN"; otherwise the tree is  *)
(* the sequence of nodes of the text, one per line, each with its row and, *)
(* for an include, the category of its path child.                         *)
(***************************************************************************)
PathNodeKind(text) ==
    IF text # <<>> /\ Head(text) = "<" THEN "system_lib_string"
    ELSE IF text # <<>> /\ Head(text) = "\"" THEN "string_literal"
    ELSE "identifier"

TreeOf(id) ==
    [i \in 1..Len(Lines(id)) |->
        [kind |-> Lines(id)[i].node,
         row |-> i - 1,
         path_kind |-> PathNodeKind(Lines(id)[i].text),
         vis |-> Lines(id)[i].vis]]

\* Parser::parse(&source, None): None, or Some(tree)
ParserParse(id) == IF id = "rN" THEN None ELSE Some(TreeOf(id))

\* Node::utf8_text(source) slices the source by the node's byte range; the
\* slice is out of range (a panic) when the source handed in is shorter than
\* the text the tree was built from
TextInRange(node, src) == node.row + 1 <= Len(Lines(src))

Utf8Text(node, src) == Lines(src)[node.row + 1].text

\* some capture of the tree cannot be sliced out of the source
SlicePanics(tree, src) == \E i \in 1..Len(tree) : ~TextInRange(tree[i], src)

(***************************************************************************)
(* Per-language extractors (src/languages).  Each takes the tree, the      *)
(* source text the captures are sliced from and the file path, and returns *)
(* the rows in match order.  Rows carry the fields the tables store;       *)
(* columns of spans are left out.                                          *)
(***************************************************************************)
\* c_lang.rs strip_include_path
strip_include_path(raw) ==
    LET s == Trim(raw)
    IN IF StartsWith(s, <<"<">>) /\ EndsWith(s, <<">">>) /\ Len(s) >= 2
       THEN SubSeq(s, 2, Len(s) - 1)
       ELSE IF StartsWith(s, <<"\"">>) /\ EndsWith(s, <<"\"">>) /\ Len(s) >= 2
       THEN SubSeq(s, 2, Len(s) - 1)
       ELSE s

\* c_lang.rs extract_imports: is_system, from the category of the path node
\* variant of IsSystemInclude: every include counts as a system include
IsSystemIncludeAlways(node) == TRUE

\* c_lang.rs 219: is_system
IsSystemInclude(node) == node.path_kind = "system_lib_string"

\* c_lang.rs extract_imports, the body of the loop for one match
CImportRows(node, src, file_path) ==
    LET raw_path == Utf8Text(node, src)
    IN IF raw_path = <<>> THEN <<>>
       ELSE << [source_file |-> file_path,
                module_specifier |-> strip_include_path(raw_path),
                imported_name |-> <<"*">>,
                local_name |-> <<"*">>,
                kind |-> "include",
                is_type_only |-> FALSE,
                line |-> node.row,
                is_external |-> IsSystemInclude(node)] >>

\* rust_lang.rs extract_use_imports: is_internal
IsInternalUse(path_text) ==
    \/ StartsWith(path_text, <<"c", "r", "a", "t", "e", ":", ":">>)
    \/ StartsWith(path_text, <<"s", "e", "l", "f", ":", ":">>)
    \/ StartsWith(path_text, <<"s", "u", "p", "e", "r", ":", ":">>)

AsKeyword == <<" ", "a", "s", " ">>
PathSep == <<":", ":">>

\* rust_lang.rs extract_use_imports, one item of a grouped use
UseItemRow(prefix, rawItem, is_internal, file_path, line) ==
    LET item == Trim(rawItem)
        sp == SplitOnce(item, AsKeyword)
        imported == IF IsSome(sp) THEN Trim(Unwrap(sp)[1])
                    ELSE Trim(Last(Split(item, PathSep)))
        local == IF IsSome(sp) THEN Trim(Unwrap(sp)[2]) ELSE imported
    IN IF item = <<>> THEN <<>>
       ELSE << [source_file |-> file_path,
                module_specifier |-> Trim(prefix \o item),
                imported_name |-> imported,
                local_name |-> local,
                kind |-> "use",
                is_type_only |-> FALSE,
                line |-> line,
                is_external |-> ~is_internal] >>

RECURSIVE UseItemRows(_, _, _, _, _)
UseItemRows(prefix, items, is_internal, file_path, line) ==
    IF items = <<>> THEN <<>>
    ELSE UseItemRow(prefix, Head(items), is_internal, file_path, line)
         \o UseItemRows(prefix, Tail(items), is_internal, file_path, line)

\* rust_lang.rs extract_use_imports
extract_use_imports(path_text, file_path, line) ==
    LET is_internal == IsInternalUse(path_text)
        brace_start == Find(path_text, <<"{">>)
    IN IF brace_start # 0
       THEN LET prefix == SubSeq(path_text, 1, brace_start - 1)
                r == RFind(path_text, <<"}">>)
                brace_end == IF r = 0 THEN Len(path_text) + 1 ELSE r
                inner == SubSeq(path_text, brace_start + 1, brace_end - 1)
            IN UseItemRows(prefix, Split(inner, <<",">>), is_internal, file_path, line)
       ELSE LET sp == SplitOnce(path_text, AsKeyword)
                module == IF IsSome(sp) THEN Trim(Unwrap(sp)[1]) ELSE path_text
                imported ==
                    IF IsSome(sp) THEN Trim(Last(Split(Unwrap(sp)[1], PathSep)))
                    ELSE IF EndsWith(path_text, <<":", ":", "*">>) THEN <<"*">>
                    ELSE Trim(Last(Split(path_text, PathSep)))
                local == IF IsSome(sp) THEN Trim(Unwrap(sp)[2]) ELSE imported
            IN << [source_file |-> file_path,
                   module_specifier |-> module,
                   imported_name |-> imported,
                   local_name |-> local,
                   kind |-> "use",
                   is_type_only |-> FALSE,
                   line |-> line,
                   is_external |-> ~is_internal] >>

\* rust_lang.rs extract_imports, the body of the loop for one match
RustImportRows(node, src, file_path) ==
    LET path_text == Utf8Text(node, src)
    IN IF path_text = <<>> THEN <<>>
       ELSE extract_use_imports(path_text, file_path, node.row)

\* the nodes the import pattern of a language matches
ImportNodeKind(lang) == IF lang = "c" THEN "preproc_include" ELSE "use_declaration"

RECURSIVE ImportRowsFrom(_, _, _, _, _)
ImportRowsFrom(tree, i, src, file_path, lang) ==
    IF i > Len(tree) THEN <<>>
    ELSE (IF tree[i].kind # ImportNodeKind(lang) THEN <<>>
          ELSE IF lang = "c" THEN CImportRows(tree[i], src, file_path)
          ELSE RustImportRows(tree[i], src, file_path))
         \o ImportRowsFrom(tree, i + 1, src, file_path, lang)

\* languages::extract_imports
extract_imports(tree, src, file_path, lang) == ImportRowsFrom(tree, 1, src, file_path, lang)

\* determine_c_kind / determine_rust_kind: None for a node that is no definition
determine_kind(node, lang) ==
    IF lang = "c" THEN
        CASE node.kind = "function_definition" -> Some("function")
          [] node.kind = "declaration" -> Some("variable")
          [] node.kind = "struct_specifier" -> Some("struct")
          [] node.kind = "union_specifier" -> Some("union")
          [] node.kind = "enum_specifier" -> Some("enum")
          [] node.kind = "type_definition" -> Some("typedef")
          [] node.kind \in {"preproc_def", "preproc_function_def"} -> Some("macro")
          [] OTHER -> None
    ELSE
        CASE node.kind = "function_item" -> Some("function")
          [] node.kind = "struct_item" -> Some("struct")
          [] node.kind = "enum_item" -> Some("enum")
          [] node.kind = "trait_item" -> Some("trait")
          [] node.kind = "type_item" -> Some("type_alias")
          [] node.kind = "const_item" -> Some("constant")
          [] node.kind = "static_item" -> Some("variable")
          [] node.kind = "union_item" -> Some("union")
          [] node.kind = "mod_item" -> Some("module")
          [] node.kind = "macro_definition" -> Some("macro")
          [] OTHER -> None

\* is_exported_c (no static storage class; types and macros always) /
\* is_exported_rust (a visibility modifier is present)
is_exported(node, lang) ==
    IF lang = "c"
    THEN IF node.kind \in {"preproc_def", "preproc_function_def", "struct_specifier",
                           "union_specifier", "enum_specifier", "type_definition"}
         THEN TRUE
         ELSE ~node.vis
    ELSE node.vis

RECURSIVE SymbolRowsFrom(_, _, _, _, _)
SymbolRowsFrom(tree, i, src, file_path, lang) ==
    IF i > Len(tree) THEN <<>>
    ELSE (IF ~IsSome(determine_kind(tree[i], lang)) \/ Utf8Text(tree[i], src) = <<>>
          THEN <<>>
          ELSE << [name |-> Utf8Text(tree[i], src),
                   kind |-> Unwrap(determine_kind(tree[i], lang)),
                   file_path |-> file_path,
                   start_line |-> tree[i].row,
                   end_line |-> tree[i].row,
                   is_exported |-> is_exported(tree[i], lang)] >>)
         \o SymbolRowsFrom(tree, i + 1, src, file_path, lang)

\* languages::extract_symbols
extract_symbols(tree, src, file_path, lang) == SymbolRowsFrom(tree, 1, src, file_path, lang)

\* the four delimiters that open a documentation comment in Rust
DocDelimiters ==
    {<<"/", "/", "/">>, <<"/", "/", "!">>, <<"/", "*", "*">>, <<"/", "*", "!">>}

\* variant of DocPrefixes: one rule for every language
DocPrefixesUniform(lang) == DocDelimiters

\* the prefixes the classify_comment of a language answers "doc" for
\* (c_lang.rs 296, cpp.rs 307, csharp.rs 285-288, go.rs 264, java.rs 285,
\* php.rs 441, rust_lang.rs 356-358)
DocPrefixes(lang) ==
    CASE lang \in {"c", "cpp", "csharp"} -> {<<"/", "*", "*">>, <<"/", "/", "/">>}
      [] lang \in {"java", "php"} -> {<<"/", "*", "*">>}
      [] lang = "go" -> {}
      [] lang = "rust" -> DocDelimiters

\* classify_comment of the extractor of a language
classify_comment(text, lang) ==
    LET trimmed == TrimStart(text)
    IN IF \E p \in DocPrefixes(lang) : StartsWith(trimmed, p) THEN "doc"
       ELSE IF StartsWith(trimmed, <<"/", "*">>) THEN "block"
       ELSE "line"

\* the nodes the comment pattern of a language matches
IsCommentNode(node, lang) ==
    IF lang = "c" THEN node.kind = "comment"
    ELSE node.kind \in {"line_comment", "block_comment"}

\* extract_symbol_from_node: the name field of the node, when it has one, and
\* the kind label of a definition node
extract_symbol_from_node(node, src, lang) ==
    IF IsSome(determine_kind(node, lang))
    THEN <<IF Utf8Text(node, src) = <<>> THEN None ELSE Some(Utf8Text(node, src)),
           determine_kind(node, lang)>>
    ELSE <<None, None>>

\* find_associated_symbol: the next named sibling of the comment node
find_associated_symbol(tree, i, src, lang) ==
    IF i + 1 > Len(tree) THEN <<None, None>>
    ELSE extract_symbol_from_node(tree[i + 1], src, lang)

RECURSIVE CommentRowsFrom(_, _, _, _, _)
\* extract_comments, the loop over the comment nodes
CommentRowsFrom(tree, i, src, file_path, lang) ==
    IF i > Len(tree) THEN <<>>
    ELSE (IF ~IsCommentNode(tree[i], lang) \/ Utf8Text(tree[i], src) = <<>>
          THEN <<>>
          ELSE << [file_path |-> file_path,
                   text |-> Utf8Text(tree[i], src),
                   kind |-> classify_comment(Utf8Text(tree[i], src), lang),
                   start_line |-> tree[i].row,
                   end_line |-> tree[i].row,
                   associated_symbol |-> find_associated_symbol(tree, i, src, lang)[1],
                   associated_symbol_kind |-> find_associated_symbol(tree, i, src, lang)[2]] >>)
         \o CommentRowsFrom(tree, i + 1, src, file_path, lang)

\* languages::extract_comments
extract_comments(tree, src, file_path, lang) == CommentRowsFrom(tree, 1, src, file_path, lang)

(***************************************************************************)
(* The file tree under the root, and the command line.                     *)
(***************************************************************************)
\* the files that may exist, as absolute paths in lexicographic path order;
\* the third is a file in the root whose name contains a backslash
PathBrs == Root \o <<"/", "b", ".", "r", "s">>
PathDaC == Root \o <<"/", "d", "/", "a", ".", "c">>
PathDbsaC == Root \o <<"/", "d", "\\", "a", ".", "c">>
PathNmd == Root \o <<"/", "n", ".", "m", "d">>
SortedUniverse == <<PathBrs, PathDaC, PathDbsaC, PathNmd>>
Universe == {SortedUniverse[i] : i \in 1..Len(SortedUniverse)}

\* the file trees: which files exist, and what each holds
Trees ==
    UNION {{f \in [S -> ContentIds] :
                \A p \in S : f[p] \in ContentsOf(extension(p))} :
           S \in {T \in SUBSET Universe : Cardinality(T) <= MaxFiles}}

\* the --language arguments: absent, "c,h", "rb"
Filters ==
    {None, Some(<<"c", ",", "h">>), Some(<<"r", "b">>)}

\* the sets of languages whose grammar Parser::set_language may reject
BrokenParserChoices == {{}, {"rust"}}

TableNames == <<"files", "symbols", "imports", "comments", "errors">>
Tables == {TableNames[i] : i \in 1..Len(TableNames)}

VARIABLES
    fs,                   \* the file tree: path -> content id
    fsChanged,            \* a file was modified since the first run began
    brokenParsers,        \* languages whose grammar the parser rejects
    lang_filter,          \* the --language argument
    outDirExists,         \* the output directory exists
    disk,                 \* the table files in the output directory
    run,                  \* 1 for the first extraction run, 2 for the repeat
    prev,                 \* the table files the first run left
    pc,                   \* position of run_parse
    err,                  \* the error run_parse returned
    languages,            \* run_parse: languages
    supported_files,      \* run_parse: supported_files
    unsupported_files,    \* run_parse: unsupported_files
    unsupported_metadata, \* phase 3: one slot per unsupported file
    query_map,            \* the three query maps: languages with compiled queries
    compiles,             \* number of compilations of each language's bundles
    ci,                   \* index of the compile loop
    task,                 \* phase 4: one record per supported file
    parsers_created,      \* number of parser instances constructed
    all_files,
    all_symbols,
    all_imports,
    all_comments,
    all_errors,
    writes,               \* number of times each table file was written in this run
    call                  \* an extractor function called on its own: arguments, rows

runVars == <<fs, fsChanged, brokenParsers, lang_filter, outDirExists, disk, run, prev,
             pc, err, languages, supported_files, unsupported_files,
             unsupported_metadata, query_map, compiles, ci, task, parsers_created,
             all_files, all_symbols, all_imports, all_comments, all_errors, writes>>

vars == <<runVars, call>>

envVars == <<brokenParsers, lang_filter>>
outVars == <<all_files, all_symbols, all_imports, all_comments, all_errors>>

NoTask == [pc |-> "new", lang |-> "none", parser |-> 0, size_bytes |-> 0,
           source |-> "none", parsed |-> "none", failed |-> "none",
           result |-> [tag |-> "None"]]

\* the local state of run_parse before it starts
FreshRun ==
    /\ pc = "begin"
    /\ err = "none"
    /\ languages = <<>>
    /\ supported_files = <<>>
    /\ unsupported_files = <<>>
    /\ unsupported_metadata = <<>>
    /\ query_map = {}
    /\ compiles = [l \in Language |-> 0]
    /\ ci = 1
    /\ task = <<>>
    /\ parsers_created = 0
    /\ all_files = <<>>
    /\ all_symbols = <<>>
    /\ all_imports = <<>>
    /\ all_comments = <<>>
    /\ all_errors = <<>>
    /\ writes = [t \in Tables |-> 0]

NoTable == [present |-> FALSE, rows |-> <<>>]

\* no extractor is called on its own
NoCall == [fn |-> "none"]

Init ==
    /\ call = NoCall
    /\ fs \in Trees
    /\ fsChanged = FALSE
    /\ brokenParsers \in BrokenParserChoices
    /\ lang_filter \in Filters
    /\ outDirExists \in BOOLEAN
    /\ disk = [t \in Tables |-> NoTable]
    /\ run = 1
    /\ prev = [t \in Tables |-> NoTable]
    /\ FreshRun

(***************************************************************************)
(* run_parse, src/main.rs 228-483.                                         *)
(***************************************************************************)
RECURSIVE FlatExtensions(_)
\* languages.iter().flat_map(|l| l.all_extensions())
FlatExtensions(langs) ==
    IF langs = <<>> THEN <<>>
    ELSE all_extensions(Head(langs)) \o FlatExtensions(Tail(langs))

Contains(q, x) == \E i \in 1..Len(q) : q[i] = x

\* the partition predicate of phase 2
IsSupported(path, langs) ==
    /\ IsSome(extension(path))
    /\ Contains(FlatExtensions(langs), Unwrap(extension(path)))

\* main.rs 233-245: canonicalize the root, build the language list
Begin ==
    /\ pc = "begin"
    /\ \E rootOk \in BOOLEAN :
        LET langs == IF IsSome(lang_filter) THEN parse_language_filter(Unwrap(lang_filter))
                     ELSE AllLanguages
        IN IF ~rootOk
           THEN /\ pc' = "failed"
                /\ err' = "invalid directory"
                /\ UNCHANGED languages
           ELSE IF langs = <<>>
           THEN /\ pc' = "failed"
                /\ err' = "no valid languages specified"
                /\ UNCHANGED languages
           ELSE /\ pc' = "discover"
                /\ languages' = langs
                /\ UNCHANGED err
    /\ UNCHANGED <<fs, fsChanged, envVars, call, outDirExists, disk, run, prev,
                   supported_files, unsupported_files, unsupported_metadata,
                   query_map, compiles, ci, task, parsers_created, outVars, writes>>

\* discovery::discover_all_files: every file under the root, sorted; fails
\* only when the root cannot be read
discover_all_files(tree) == SelectSeq(SortedUniverse, LAMBDA p : p \in DOMAIN tree)

\* main.rs 250-276: discovery, the early return, the partition
Discover ==
    /\ pc = "discover"
    /\ \E walkOk \in BOOLEAN :
        LET all_discovered == discover_all_files(fs)
            sup == SelectSeq(all_discovered, LAMBDA p : IsSupported(p, languages))
            unsup == SelectSeq(all_discovered, LAMBDA p : ~IsSupported(p, languages))
        IN IF ~walkOk
           THEN /\ pc' = "failed"
                /\ err' = "unreadable root"
                /\ UNCHANGED <<supported_files, unsupported_files,
                               unsupported_metadata, task>>
           ELSE IF all_discovered = <<>>
           THEN /\ pc' = "done"
                /\ UNCHANGED <<err, supported_files, unsupported_files,
                               unsupported_metadata, task>>
           ELSE /\ pc' = "phase3"
                /\ supported_files' = sup
                /\ unsupported_files' = unsup
                /\ unsupported_metadata' = [i \in 1..Len(unsup) |-> None]
                /\ task' = [i \in 1..Len(sup) |-> NoTask]
                /\ UNCHANGED err
    /\ UNCHANGED <<fs, fsChanged, envVars, call, outDirExists, disk, run, prev, languages,
                   query_map, compiles, ci, parsers_created, outVars, writes>>

\* to_string_lossy().replace('\\', "/") of the path relative to the root
RelativePath(path) == Replace(strip_prefix(path, Root), "\\", "/")

\* unwrap_or_default of the extension
ExtOrEmpty(path) == IF IsSome(extension(path)) THEN Unwrap(extension(path)) ELSE <<>>

\* main.rs 281-315: the closure of phase 3 for one unsupported file
UnsupportedMetadata(path, content) ==
    [path |-> RelativePath(path),
     name |-> file_name(path),
     extension |-> ExtOrEmpty(path),
     language |-> "unsupported",
     size_bytes |-> IF ReadOk(content) THEN ContentLen(content) ELSE MetadataLen(content),
     line_count |-> IF ReadOk(content) THEN LineCount(content) ELSE 0]

\* phase 3, one parallel task
UnsupportedTask(i) ==
    /\ pc = "phase3"
    /\ i \in 1..Len(unsupported_files)
    /\ unsupported_metadata[i] = None
    /\ unsupported_metadata' =
         [unsupported_metadata EXCEPT
            ![i] = Some(UnsupportedMetadata(unsupported_files[i], fs[unsupported_files[i]]))]
    /\ UNCHANGED <<fs, fsChanged, envVars, call, outDirExists, disk, run, prev, pc, err,
                   languages, supported_files, unsupported_files, query_map,
                   compiles, ci, task, parsers_created, outVars, writes>>

\* main.rs 316: collect() returns once every task of phase 3 has finished
Phase3Collect ==
    /\ pc = "phase3"
    /\ \A i \in 1..Len(unsupported_files) : unsupported_metadata[i] # None
    /\ pc' = "compile"
    /\ UNCHANGED <<fs, fsChanged, envVars, call, outDirExists, disk, run, prev, err,
                   languages, supported_files, unsupported_files,
                   unsupported_metadata, query_map, compiles, ci, task,
                   parsers_created, outVars, writes>>

\* main.rs 322-326: one iteration of the compile loop (the three bundles of
\* languages[ci] are compiled and inserted into the three maps)
CompileStep ==
    /\ pc = "compile"
    /\ ci <= Len(languages)
    /\ query_map' = query_map \cup {languages[ci]}
    /\ compiles' = [compiles EXCEPT ![languages[ci]] = @ + 1]
    /\ ci' = ci + 1
    /\ UNCHANGED <<fs, fsChanged, envVars, call, outDirExists, disk, run, prev, pc, err,
                   languages, supported_files, unsupported_files,
                   unsupported_metadata, task, parsers_created, outVars, writes>>

\* main.rs 327-333: the maps are wrapped for sharing and phase 4 starts
StartPhase4 ==
    /\ pc = "compile"
    /\ ci > Len(languages)
    /\ pc' = "phase4"
    /\ UNCHANGED <<fs, fsChanged, envVars, call, outDirExists, disk, run, prev, err,
                   languages, supported_files, unsupported_files,
                   unsupported_metadata, query_map, compiles, ci, task,
                   parsers_created, outVars, writes>>

(***************************************************************************)
(* Phase 4: one task per supported file (main.rs 333-428).  A task takes   *)
(* three steps, between which other tasks and the file system may move:    *)
(* the look-ups and parser creation, the read of the source, and           *)
(* parse_file (which reads the file again) followed by the extractors.     *)
(***************************************************************************)
\* main.rs 365-373, 381-389, 397-405: the ParseError of a rejected file
ErrorRow(path, lang, size_bytes, error_type, error_message) ==
    [file_path |-> RelativePath(path),
     file_name |-> file_name(path),
     extension |-> ExtOrEmpty(path),
     language |-> lang,
     error_type |-> error_type,
     error_message |-> error_message,
     size_bytes |-> size_bytes]

\* parser::create_parser: a new tree_sitter::Parser for every call; the
\* instances are numbered in the order of their construction
\* variant of create_parser: one parser instance is handed to every task
create_parser_shared(created) == 1

\* parser.rs create_parser: a new Parser of its own for the calling task
create_parser(created) == created + 1

\* the closure returns: its parser is dropped, its result is kept for collect
TaskDone(t, result, failed) ==
    [t EXCEPT !.pc = "done", !.parser = 0, !.result = result, !.failed = failed]

\* main.rs 336-375
TaskCreate(i) ==
    /\ pc = "phase4"
    /\ i \in 1..Len(supported_files)
    /\ task[i].pc = "new"
    /\ LET path == supported_files[i]
           ext == extension(path)
           lang == IF IsSome(ext) THEN from_extension(Unwrap(ext)) ELSE None
           size == MetadataLen(fs[path])
       IN IF ~IsSome(lang) \/ Unwrap(lang) \notin query_map
          THEN /\ task' = [task EXCEPT ![i] = TaskDone(@, [tag |-> "Dropped"], "none")]
               /\ UNCHANGED parsers_created
          ELSE IF Unwrap(lang) \in brokenParsers
          THEN /\ task' = [task EXCEPT ![i] =
                     TaskDone([@ EXCEPT !.lang = Unwrap(lang), !.size_bytes = size],
                              [tag |-> "Error",
                               error |-> ErrorRow(path, Unwrap(lang), size, "parser_creation",
                                                  "failed to set tree-sitter language")],
                              "create_parser")]
               /\ UNCHANGED parsers_created
          ELSE /\ task' = [task EXCEPT ![i] =
                     [@ EXCEPT !.pc = "parser", !.lang = Unwrap(lang),
                               !.size_bytes = size,
                               !.parser = create_parser(parsers_created)]]
               /\ parsers_created' = parsers_created + 1
    /\ UNCHANGED <<fs, fsChanged, envVars, call, outDirExists, disk, run, prev, pc, err,
                   languages, supported_files, unsupported_files,
                   unsupported_metadata, query_map, compiles, ci, outVars, writes>>

\* main.rs 377-391
TaskRead(i) ==
    /\ pc = "phase4"
    /\ i \in 1..Len(supported_files)
    /\ task[i].pc = "parser"
    /\ LET path == supported_files[i]
           content == fs[path]
       IN IF ReadOk(content)
          THEN task' = [task EXCEPT ![i] = [@ EXCEPT !.pc = "source", !.source = content]]
          ELSE task' = [task EXCEPT ![i] =
                  TaskDone(@, [tag |-> "Error",
                               error |-> ErrorRow(path, @.lang, @.size_bytes, "file_read",
                                                  "io error")],
                           "read")]
    /\ UNCHANGED <<fs, fsChanged, envVars, call, outDirExists, disk, run, prev, pc, err,
                   languages, supported_files, unsupported_files,
                   unsupported_metadata, query_map, compiles, ci, parsers_created,
                   outVars, writes>>

\* parser.rs 29-55: the FileMetadata parse_file builds from its own read
ParsedMetadata(path, lang, content) ==
    [path |-> strip_prefix(path, Root),
     name |-> file_name(path),
     extension |-> ExtOrEmpty(path),
     language |-> lang,
     size_bytes |-> ContentLen(content),
     line_count |-> LineCount(content)]

\* parser::parse_file: Err (with the context message) or Ok(metadata, tree)
parse_file(path, lang, content) ==
    IF ~ReadOk(content)
    THEN [ok |-> FALSE, failed |-> "parse_file_read", message |-> "failed to read"]
    ELSE IF ~IsSome(ParserParse(content))
    THEN [ok |-> FALSE, failed |-> "parse", message |-> "tree-sitter failed to parse"]
    ELSE [ok |-> TRUE, metadata |-> ParsedMetadata(path, lang, content),
          tree |-> Unwrap(ParserParse(content))]

\* main.rs 393-426
TaskParse(i) ==
    /\ pc = "phase4"
    /\ i \in 1..Len(supported_files)
    /\ task[i].pc = "source"
    /\ LET path == supported_files[i]
           t == task[i]
           r == parse_file(path, t.lang, fs[path])
       IN IF ~r.ok
          THEN /\ task' = [task EXCEPT ![i] =
                     TaskDone(@, [tag |-> "Error",
                                  error |-> ErrorRow(path, t.lang, t.size_bytes,
                                                     "parse_failure", r.message)],
                              r.failed)]
               /\ UNCHANGED pc
          ELSE IF SlicePanics(r.tree, t.source)
          THEN /\ pc' = "panicked"
               /\ task' = [task EXCEPT ![i] = [@ EXCEPT !.parsed = fs[path]]]
          ELSE /\ task' = [task EXCEPT ![i] =
                     TaskDone([@ EXCEPT !.parsed = fs[path]],
                              [tag |-> "Success",
                               metadata |-> r.metadata,
                               syms |-> extract_symbols(r.tree, t.source, r.metadata.path, t.lang),
                               imps |-> extract_imports(r.tree, t.source, r.metadata.path, t.lang),
                               cmts |-> extract_comments(r.tree, t.source, r.metadata.path, t.lang)],
                              "none")]
               /\ UNCHANGED pc
    /\ UNCHANGED <<fs, fsChanged, envVars, call, outDirExists, disk, run, prev, err,
                   languages, supported_files, unsupported_files,
                   unsupported_metadata, query_map, compiles, ci, parsers_created,
                   outVars, writes>>

AllTasksDone == \A i \in 1..Len(task) : task[i].pc = "done"

(***************************************************************************)
(* Phase 5: the serial merge (main.rs 428-453).                            *)
(***************************************************************************)
RECURSIVE CollectResults(_, _)
\* filter_map(..).collect(): the results in the order of supported_files,
\* without the files the closure returned None for
CollectResults(tasks, i) ==
    IF i > Len(tasks) THEN <<>>
    ELSE (IF tasks[i].result.tag = "Dropped" THEN <<>> ELSE <<tasks[i].result>>)
         \o CollectResults(tasks, i + 1)

\* a FileMetadata made from the ParseError of a rejected file
MetadataOfError(e) ==
    [path |-> e.file_path, name |-> e.file_name, extension |-> e.extension,
     language |-> e.language, size_bytes |-> e.size_bytes, line_count |-> 0]

RECURSIVE MergeFilesEveryFile(_)
\* variant of MergeFiles: a rejected file gets a files row too
MergeFilesEveryFile(results) ==
    IF results = <<>> THEN <<>>
    ELSE (IF Head(results).tag = "Success" THEN <<Head(results).metadata>>
          ELSE <<MetadataOfError(Head(results).error)>>)
         \o MergeFilesEveryFile(Tail(results))

RECURSIVE MergeFiles(_)
\* main.rs 440: all_files.push(metadata), for the successes
MergeFiles(results) ==
    IF results = <<>> THEN <<>>
    ELSE (IF Head(results).tag = "Success" THEN <<Head(results).metadata>> ELSE <<>>)
         \o MergeFiles(Tail(results))

RECURSIVE MergeSymbols(_)
\* main.rs 441: all_symbols.extend(syms)
MergeSymbols(results) ==
    IF results = <<>> THEN <<>>
    ELSE (IF Head(results).tag = "Success" THEN Head(results).syms ELSE <<>>)
         \o MergeSymbols(Tail(results))

RECURSIVE Reverse(_)
Reverse(q) == IF q = <<>> THEN <<>> ELSE Reverse(Tail(q)) \o <<Head(q)>>

RECURSIVE MergeImportsPrepend(_)
\* variant of MergeImports: every row is inserted at the front of the stream
MergeImportsPrepend(results) ==
    IF results = <<>> THEN <<>>
    ELSE MergeImportsPrepend(Tail(results))
         \o (IF Head(results).tag = "Success" THEN Reverse(Head(results).imps) ELSE <<>>)

RECURSIVE MergeImports(_)
\* main.rs 442: all_imports.extend(imps)
MergeImports(results) ==
    IF results = <<>> THEN <<>>
    ELSE (IF Head(results).tag = "Success" THEN Head(results).imps ELSE <<>>)
         \o MergeImports(Tail(results))

RECURSIVE MergeComments(_)
\* main.rs 443: all_comments.extend(cmts)
MergeComments(results) ==
    IF results = <<>> THEN <<>>
    ELSE (IF Head(results).tag = "Success" THEN Head(results).cmts ELSE <<>>)
         \o MergeComments(Tail(results))

RECURSIVE MergeErrors(_)
\* main.rs 445-447: all_errors.push(err)
MergeErrors(results) ==
    IF results = <<>> THEN <<>>
    ELSE (IF Head(results).tag = "Error" THEN <<Head(results).error>> ELSE <<>>)
         \o MergeErrors(Tail(results))

\* the unsupported_metadata vector
UnsupportedRows == [i \in 1..Len(unsupported_metadata) |-> Unwrap(unsupported_metadata[i])]

\* the collect of phase 4 may return once every task has finished
\* variant of MayCollect: the merge does not wait for the tasks
MayCollectEarly == TRUE

\* main.rs 428: collect() returns when every closure has returned
MayCollect == AllTasksDone

Merge ==
    /\ pc = "phase4"
    /\ MayCollect
    /\ LET results == CollectResults(task, 1)
       IN /\ all_files' = MergeFiles(results) \o UnsupportedRows
          /\ all_symbols' = MergeSymbols(results)
          /\ all_imports' = MergeImports(results)
          /\ all_comments' = MergeComments(results)
          /\ all_errors' = MergeErrors(results)
    /\ pc' = "mkdir"
    /\ UNCHANGED <<fs, fsChanged, envVars, call, outDirExists, disk, run, prev, err,
                   languages, supported_files, unsupported_files,
                   unsupported_metadata, query_map, compiles, ci, task,
                   parsers_created, writes>>

(***************************************************************************)
(* Phase 6: the output directory and the five table files                  *)
(* (main.rs 455-463, output.rs).                                           *)
(***************************************************************************)
\* main.rs 456-457
CreateDir ==
    /\ pc = "mkdir"
    /\ \E ok \in BOOLEAN :
        IF ok
        THEN /\ outDirExists' = TRUE
             /\ pc' = "write"
             /\ UNCHANGED err
        ELSE /\ pc' = "failed"
             /\ err' = "failed to create output dir"
             /\ UNCHANGED outDirExists
    /\ UNCHANGED <<fs, fsChanged, envVars, call, disk, run, prev, languages,
                   supported_files, unsupported_files, unsupported_metadata,
                   query_map, compiles, ci, task, parsers_created, outVars, writes>>

\* the rows handed to the writer of each table
RowsFor(t) ==
    CASE t = "files" -> all_files
      [] t = "symbols" -> all_symbols
      [] t = "imports" -> all_imports
      [] t = "comments" -> all_comments
      [] t = "errors" -> all_errors

\* variant of WriteParquet: the table file is opened for appending
WriteParquetAppend(table, rows) == [present |-> TRUE, rows |-> table.rows \o rows]

\* output.rs write_*_parquet: File::create truncates or creates the table
\* file and the batch is written to it
WriteParquet(table, rows) == [present |-> TRUE, rows |-> rows]

\* main.rs 459-463: the next of the five writes; after the last one run_parse
\* prints its summary and returns Ok
WriteTable ==
    /\ pc = "write"
    /\ \E k \in 1..Len(TableNames) :
        /\ writes[TableNames[k]] = 0
        /\ \A j \in 1..(k - 1) : writes[TableNames[j]] > 0
        /\ \E ok \in BOOLEAN :
            IF ok
            THEN /\ disk' = [disk EXCEPT ![TableNames[k]] =
                                WriteParquet(@, RowsFor(TableNames[k]))]
                 /\ writes' = [writes EXCEPT ![TableNames[k]] = @ + 1]
                 /\ pc' = IF k = Len(TableNames) THEN "done" ELSE "write"
                 /\ UNCHANGED err
            ELSE /\ pc' = "failed"
                 /\ err' = "failed to write table"
                 /\ UNCHANGED <<disk, writes>>
    /\ UNCHANGED <<fs, fsChanged, envVars, call, outDirExists, run, prev, languages,
                   supported_files, unsupported_files, unsupported_metadata,
                   query_map, compiles, ci, task, parsers_created, outVars>>

(***************************************************************************)
(* The environment: the command is run a second time on the same tree, and *)
(* files are modified while a run reads them.                              *)
(***************************************************************************)
Rerun ==
    /\ pc = "done"
    /\ run = 1
    /\ ~fsChanged
    /\ run' = 2
    /\ prev' = disk
    /\ pc' = "begin"
    /\ err' = "none"
    /\ languages' = <<>>
    /\ supported_files' = <<>>
    /\ unsupported_files' = <<>>
    /\ unsupported_metadata' = <<>>
    /\ query_map' = {}
    /\ compiles' = [l \in Language |-> 0]
    /\ ci' = 1
    /\ task' = <<>>
    /\ parsers_created' = 0
    /\ all_files' = <<>>
    /\ all_symbols' = <<>>
    /\ all_imports' = <<>>
    /\ all_comments' = <<>>
    /\ all_errors' = <<>>
    /\ writes' = [t \in Tables |-> 0]
    /\ UNCHANGED <<fs, fsChanged, envVars, call, outDirExists, disk>>

\* one file is replaced by another content, once, while the first run reads
\* the tree (the repeat run is there to be compared on an unchanged tree)
FsChange(p, c) ==
    /\ pc \in {"phase3", "phase4"}
    /\ run = 1
    /\ ~fsChanged
    /\ p \in DOMAIN fs
    /\ c \in (ContentsOf(extension(p))
                \cup (IF extension(p) = Some(<<"c">>) THEN {"cB"} ELSE {})) \ {fs[p]}
    /\ fs' = [fs EXCEPT ![p] = c]
    /\ fsChanged' = TRUE
    /\ UNCHANGED <<envVars, call, outDirExists, disk, run, prev, pc, err, languages,
                   supported_files, unsupported_files, unsupported_metadata,
                   query_map, compiles, ci, task, parsers_created, outVars, writes>>

Next ==
    \/ Begin
    \/ Discover
    \/ \E i \in 1..MaxFiles : UnsupportedTask(i)
    \/ Phase3Collect
    \/ CompileStep
    \/ StartPhase4
    \/ \E i \in 1..MaxFiles : TaskCreate(i)
    \/ \E i \in 1..MaxFiles : TaskRead(i)
    \/ \E i \in 1..MaxFiles : TaskParse(i)
    \/ Merge
    \/ CreateDir
    \/ WriteTable
    \/ Rerun
    \/ \E p \in Universe, c \in ContentIds : FsChange(p, c)

Spec == Init /\ [][Next]_vars

(***************************************************************************)
(* The extractor functions called on their own, each on arguments drawn    *)
(* from a bounded set: run_parse stays where it starts.                    *)
(***************************************************************************)
\* run_parse is not running: an empty tree, no argument, nothing written
Idle ==
    /\ fs = <<>>
    /\ fsChanged = FALSE
    /\ brokenParsers = {}
    /\ lang_filter = None
    /\ outDirExists = FALSE
    /\ disk = [t \in Tables |-> NoTable]
    /\ run = 1
    /\ prev = [t \in Tables |-> NoTable]
    /\ FreshRun

RECURSIVE TrimMatches(_, _)
\* str::trim_matches(c): every leading and trailing c removed
TrimMatches(s, c) ==
    IF s # <<>> /\ Head(s) = c THEN TrimMatches(Tail(s), c)
    ELSE IF s # <<>> /\ s[Len(s)] = c THEN TrimMatches(SubSeq(s, 1, Len(s) - 1), c)
    ELSE s

\* go.rs extract_imports, the body of the loop for one match: raw_path is the
\* text of the path literal, alias the text of the name field of the
\* import_spec (None when it has none)
GoImportRows(raw_path, alias, file_path, line) ==
    LET module_specifier == TrimMatches(raw_path, "\"")
        imported_name == Last(Split(module_specifier, <<"/">>))
        local_name == IF IsSome(alias) THEN Unwrap(alias) ELSE imported_name
    IN IF module_specifier = <<>> THEN <<>>
       ELSE << [source_file |-> file_path,
                module_specifier |-> module_specifier,
                imported_name |-> imported_name,
                local_name |-> local_name,
                kind |-> "import",
                is_type_only |-> FALSE,
                line |-> line,
                is_external |-> TRUE] >>

MaxPathLen == 3

\* the texts of at most n characters over an alphabet
Texts(alphabet, n) == UNION {[1..k -> alphabet] : k \in 0..n}

\* the import_spec nodes handed to the Go extractor: a quoted path and an
\* optional name
GoImportSpecs ==
    {[fn |-> "go_imports", raw_path |-> <<"\"">> \o t \o <<"\"">>, alias |-> a,
      returned |-> FALSE, rows |-> <<>>] :
        t \in Texts({"a", "/"}, MaxPathLen), a \in {None, Some(<<"_">>), Some(<<"x">>)}}

CallFile == <<"m">>

\* go.rs extract_imports on one import_spec
CallGoImports ==
    /\ call.fn = "go_imports"
    /\ ~call.returned
    /\ call' = [call EXCEPT !.returned = TRUE,
                            !.rows = GoImportRows(call.raw_path, call.alias, CallFile, 0)]
    /\ UNCHANGED runVars

MaxCommentLen == 3

\* the languages whose extractor has a classify_comment
CommentLanguages == {"c", "cpp", "csharp", "go", "java", "php", "rust"}

\* the comment texts handed to classify_comment
CommentTexts ==
    {[fn |-> "classify_comment", lang |-> l, text |-> t, returned |-> FALSE, kind |-> "none"] :
        l \in CommentLanguages, t \in Texts({"/", "*", "!", " ", "x"}, MaxCommentLen)}

\* classify_comment on one comment text
CallClassifyComment ==
    /\ call.fn = "classify_comment"
    /\ ~call.returned
    /\ call' = [call EXCEPT !.returned = TRUE,
                            !.kind = classify_comment(call.text, call.lang)]
    /\ UNCHANGED runVars

MaxDecorators == 2

\* the Python definitions handed to the symbol extractor: a def or a class
\* named name, under n decorator lines, whose nearest enclosing definition is
\* owner
PyItems ==
    {[fn |-> "python_symbols", inner |-> k, decorators |-> n, name |-> nm, owner |-> o,
      returned |-> FALSE, rows |-> <<>>] :
        k \in {"function_definition", "class_definition"}, n \in 0..MaxDecorators,
        nm \in {<<"f">>, <<"_", "g">>},
        o \in {"module", "class_definition", "function_definition"}}

\* the nodes of the tree of an item: the definition node and, when the item
\* is decorated, the decorated_definition node around it; ancestors are the
\* kinds of the nodes above, nearest first
PyNodes(item) ==
    LET above == IF item.owner = "module" THEN <<"module">>
                 ELSE <<"block", item.owner, "module">>
        def == [kind |-> item.inner, name |-> item.name,
                start_row |-> item.decorators, end_row |-> item.decorators + 1,
                ancestors |-> IF item.decorators = 0 THEN above
                              ELSE <<"decorated_definition">> \o above,
                definition |-> "none"]
        decorated == [kind |-> "decorated_definition", name |-> item.name,
                      start_row |-> 0, end_row |-> item.decorators + 1,
                      ancestors |-> above, definition |-> item.inner]
    IN IF item.decorators = 0 THEN <<def>> ELSE <<decorated, def>>

RECURSIVE is_inside_class(_)
\* python.rs is_inside_class, on the kinds of the ancestors of the node
is_inside_class(ancestors) ==
    IF ancestors = <<>> THEN FALSE
    ELSE IF Head(ancestors) = "class_definition" THEN TRUE
    ELSE IF Head(ancestors) = "function_definition" THEN FALSE
    ELSE is_inside_class(Tail(ancestors))

\* python.rs determine_python_kind (the arms of definitions)
determine_python_kind(def_node) ==
    CASE def_node.kind = "function_definition" ->
            IF is_inside_class(def_node.ancestors) THEN Some("method") ELSE Some("function")
      [] def_node.kind = "class_definition" -> Some("class")
      [] def_node.kind = "decorated_definition" ->
            (CASE def_node.definition = "function_definition" ->
                    IF is_inside_class(def_node.ancestors) THEN Some("method")
                    ELSE Some("function")
               [] def_node.definition = "class_definition" -> Some("class")
               [] OTHER -> None)
      [] OTHER -> None

\* variant of HandledByDecorated: the inner definition is not recognised
HandledByDecoratedNever(def_node) == FALSE

\* python.rs 116-123: a function or class definition whose parent is a
\* decorated_definition is left to the match of that parent
HandledByDecorated(def_node) ==
    /\ def_node.kind \in {"function_definition", "class_definition"}
    /\ def_node.ancestors # <<>>
    /\ Head(def_node.ancestors) = "decorated_definition"

RECURSIVE PythonSymbolRows(_, _)
\* python.rs extract_symbols: PYTHON_SYMBOL_QUERY matches every definition
\* node and every decorated_definition node, capturing the name of the
\* definition; the loop over the matches
PythonSymbolRows(nodes, file_path) ==
    IF nodes = <<>> THEN <<>>
    ELSE LET def_node == Head(nodes)
             name == def_node.name
         IN (IF \/ name = <<>>
                \/ HandledByDecorated(def_node)
                \/ ~IsSome(determine_python_kind(def_node))
             THEN <<>>
             ELSE << [name |-> name,
                      kind |-> Unwrap(determine_python_kind(def_node)),
                      file_path |-> file_path,
                      start_line |-> def_node.start_row,
                      end_line |-> def_node.end_row,
                      is_exported |-> ~StartsWith(name, <<"_">>)] >>)
            \o PythonSymbolRows(Tail(nodes), file_path)

\* python.rs extract_symbols on the tree of one definition
CallPythonSymbols ==
    /\ call.fn = "python_symbols"
    /\ ~call.returned
    /\ call' = [call EXCEPT !.returned = TRUE,
                            !.rows = PythonSymbolRows(PyNodes(call), CallFile)]
    /\ UNCHANGED runVars

\* models.rs ImportInfo::is_external_specifier
is_external_specifier(module_specifier) ==
    ~(StartsWith(module_specifier, <<".">>) \/ StartsWith(module_specifier, <<"#">>))

RECURSIVE Like(_, _)
\* the LIKE operator of the SQL runtime: % matches any run of characters,
\* _ any one character, every other character itself
Like(s, pattern) ==
    IF pattern = <<>> THEN s = <<>>
    ELSE IF Head(pattern) = "%"
         THEN \/ Like(s, Tail(pattern))
              \/ s # <<>> /\ Like(Tail(s), pattern)
    ELSE /\ s # <<>>
         /\ (Head(pattern) = "_" \/ Head(pattern) = Head(s))
         /\ Like(Tail(s), Tail(pattern))

\* variant of SynthesizedIsExternal: only the relative-path prefix is internal
SynthesizedIsExternalDotOnly(module_specifier) ==
    ~Like(module_specifier, <<".", "%">>)

\* db.rs 80-83: the is_external expression of the view over an imports table
\* that has no is_external column
SynthesizedIsExternal(module_specifier) ==
    /\ ~Like(module_specifier, <<".", "%">>)
    /\ ~Like(module_specifier, <<"#", "%">>)

RequiredTables == {"files", "symbols"}

OptionalTables == {"imports", "comments", "errors"}

\* variant of OptionalViews: the optional views are registered regardless
OptionalViewsAll(present) == OptionalTables

\* db.rs 55-113: an optional view is registered when its table file exists
OptionalViews(present) == {v \in OptionalTables : v \in present}

\* db.rs QueryEngine::new over a directory holding the table files present,
\* whose imports table is legacy (no is_external column) or not and holds a
\* row with module_specifier; bad is the view whose creation the SQL runtime
\* rejects, "none" when it rejects none
QueryEngineNew(present, legacy, module_specifier, bad) ==
    LET NoEngine(msg) == [ok |-> FALSE, err |-> msg, views |-> {}, is_external |-> None]
    IN IF "files" \notin present THEN NoEngine("files.parquet not found")
       ELSE IF "symbols" \notin present THEN NoEngine("symbols.parquet not found")
       ELSE IF bad \in RequiredTables \cup OptionalViews(present)
            THEN NoEngine("failed to create view")
       ELSE [ok |-> TRUE, err |-> "",
             views |-> RequiredTables \cup OptionalViews(present),
             is_external |-> IF "imports" \in OptionalViews(present) /\ legacy
                             THEN Some(SynthesizedIsExternal(module_specifier))
                             ELSE None]

\* the data directories handed to the query engine
Stores ==
    {[fn |-> "query", present |-> p, legacy |-> l, module_specifier |-> m,
      stage |-> "start", engine |-> <<>>, report |-> "none", result |-> <<>>] :
        p \in SUBSET (RequiredTables \cup OptionalTables), l \in BOOLEAN,
        m \in Texts({".", "#", "a"}, MaxPathLen)}

\* main.rs 27-215: every query subcommand first builds the engine
CallQueryEngineNew ==
    /\ call.fn = "query"
    /\ call.stage = "start"
    /\ \E bad \in {"none"} \cup call.present :
          LET e == QueryEngineNew(call.present, call.legacy, call.module_specifier, bad)
          IN call' = [call EXCEPT !.stage = IF e.ok THEN "engine" ELSE "failed",
                                  !.engine = e]
    /\ UNCHANGED runVars

Reports ==
    {"overview", "outline", "search", "files", "deps", "dependents", "callers",
     "imports", "comments", "errors"}

\* variant of ReportTables: search joins imports without asking
ReportTablesUnguarded(report) ==
    CASE report = "search" -> [needs |-> {}, guarded |-> {}, reads |-> {"symbols", "imports"}]
      [] OTHER -> [needs |-> {}, guarded |-> {}, reads |-> {"files", "symbols"}]

\* the views of each report: needs are asked for up front (has_imports,
\* has_comments, has_errors followed by bail!), guarded are read only when
\* they exist, reads are the views its SQL names
ReportTables(report) ==
    CASE report = "overview" ->
            [needs |-> {}, guarded |-> {"imports"}, reads |-> {"files", "symbols", "imports"}]
      [] report = "outline" ->
            [needs |-> {}, guarded |-> {"imports"}, reads |-> {"files", "symbols", "imports"}]
      [] report = "search" ->
            [needs |-> {}, guarded |-> {"imports"}, reads |-> {"symbols", "imports"}]
      [] report = "files" ->
            [needs |-> {}, guarded |-> {"imports"}, reads |-> {"files", "imports"}]
      [] report \in {"deps", "dependents", "callers", "imports"} ->
            [needs |-> {"imports"}, guarded |-> {}, reads |-> {"imports"}]
      [] report = "comments" ->
            [needs |-> {"comments"}, guarded |-> {}, reads |-> {"comments"}]
      [] report = "errors" ->
            [needs |-> {"errors"}, guarded |-> {}, reads |-> {"errors"}]

\* a report run on an engine holding views: it bails when a view it needs is
\* missing, its SQL fails when it names a missing view, and otherwise it
\* returns the sections made from the views it read
run_report(report, views) ==
    LET r == ReportTables(report)
        used == r.reads \ (r.guarded \ views)
    IN IF ~(r.needs \subseteq views)
       THEN [ok |-> FALSE, err |-> "parquet not found", sections |-> {}]
       ELSE IF ~(used \subseteq views)
       THEN [ok |-> FALSE, err |-> "failed to prepare query", sections |-> {}]
       ELSE [ok |-> TRUE, err |-> "", sections |-> used]

\* main.rs 27-215: the subcommand runs its report on the engine
CallRunReport ==
    /\ call.fn = "query"
    /\ call.stage = "engine"
    /\ \E report \in Reports :
          call' = [call EXCEPT !.stage = "done", !.report = report,
                               !.result = run_report(report, call.engine.views)]
    /\ UNCHANGED runVars

MaxDirDepth == 3

\* overview.rs dir_depth; a directory path is kept as the sequence of its
\* segments, so a path other than "." has one '/' less than it has segments
dir_depth(path) ==
    IF path = <<".">> THEN 0 ELSE (Len(path) - 1) + 1

\* the directory statistics handed to build_module_tree with a depth limit:
\* the directories that hold files (overview.rs query_directory_stats), every
\* one with at least one file
ModuleTreeInputs ==
    LET names == <<"a", "b", "c", "d", "e">>
        universe == {<<".">>, <<"a", "x">>}
                        \cup {[i \in 1..n |-> names[i]] : n \in 1..MaxDirDepth}
        stat == {[file_count |-> 1, total_lines |-> 0], [file_count |-> 2, total_lines |-> 5]}
    IN {[fn |-> "module_tree", dir_stats |-> st, max_depth |-> d,
         returned |-> FALSE, nodes |-> <<>>] :
            st \in UNION {[dirs -> stat] : dirs \in SUBSET universe \ {{}}},
            d \in 0..MaxDirDepth}

RECURSIVE SetSum(_, _)
\* the loops `for child in &node.children { total += ... }`
SetSum(f, S) ==
    IF S = {} THEN 0
    ELSE LET x == CHOOSE y \in S : TRUE
         IN f[x] + SetSum(f, S \ {x})

\* overview.rs build_module_tree: the nodes of the returned forest, by path,
\* with the statistics each one reports
build_module_tree(dir_stats, max_depth) ==
    LET \* nodes of the directories with files, then the synthesized ancestors
        tree == DOMAIN dir_stats
                  \cup UNION {{SubSeq(d, 1, k) : k \in 1..(Len(d) - 1)} :
                                   d \in DOMAIN dir_stats}
        initial(n) == IF n \in DOMAIN dir_stats THEN dir_stats[n]
                      ELSE [file_count |-> 0, total_lines |-> 0]
        children_map(n) == {c \in tree : Len(c) > 1 /\ SubSeq(c, 1, Len(c) - 1) = n}
        \* assemble recurses into the children within the limit only
        children(n) == {c \in children_map(n) : dir_depth(c) <= max_depth}
        rolled(n) == initial(n).file_count = 0 /\ initial(n).total_lines = 0
        \* aggregate_files and aggregate_lines of the assembled node n: its own
        \* number, rolled up already when it is synthetic, plus its children's
        aggregate_files[n \in tree] ==
            LET below == SetSum(aggregate_files, children(n))
            IN (IF rolled(n) THEN below ELSE initial(n).file_count) + below
        aggregate_lines[n \in tree] ==
            LET below == SetSum(aggregate_lines, children(n))
            IN (IF rolled(n) THEN below ELSE initial(n).total_lines) + below
        assembled[n \in tree] ==
            \/ Len(n) = 1
            \/ /\ dir_depth(n) <= max_depth
               /\ assembled[SubSeq(n, 1, Len(n) - 1)]
    IN [n \in {m \in tree : assembled[m]} |->
          [file_count |-> IF rolled(n) THEN SetSum(aggregate_files, children(n))
                          ELSE initial(n).file_count,
           total_lines |-> IF rolled(n) THEN SetSum(aggregate_lines, children(n))
                           ELSE initial(n).total_lines]]

\* overview.rs run_overview builds the module tree
CallBuildModuleTree ==
    /\ call.fn = "module_tree"
    /\ ~call.returned
    /\ call' = [call EXCEPT !.returned = TRUE,
                            !.nodes = build_module_tree(call.dir_stats, call.max_depth)]
    /\ UNCHANGED runVars

MaxImports == 2

\* imports tables handed to the dependency summary: for each of two source
\* files, how many of its import rows have kind re_export and how many have
\* another kind
BarrelInputs ==
    {[fn |-> "barrel_files", imports |-> t, returned |-> FALSE, barrel_files |-> {}] :
        t \in [{"a.ts", "b.ts"} -> [re_export : 0..MaxImports, other : 0..MaxImports]]}

\* overview.rs 569-580, the barrel files statement: one group per source_file
\* that has import rows, kept when its re_export_count is above 0; the two
\* files of the table stay under LIMIT 10, and the order of the rows and the
\* rounded re_export_ratio column are left out
barrel_files(imports) ==
    LET groups == {f \in DOMAIN imports : imports[f].re_export + imports[f].other > 0}
        row(f) == [file_path |-> f,
                   re_export_count |-> imports[f].re_export,
                   total_imports |-> imports[f].re_export + imports[f].other]
    IN {row(f) : f \in {g \in groups : row(g).re_export_count > 0}}

\* overview.rs query_dependency_summary collects the barrel files
CallBarrelFiles ==
    /\ call.fn = "barrel_files"
    /\ ~call.returned
    /\ call' = [call EXCEPT !.returned = TRUE, !.barrel_files = barrel_files(call.imports)]
    /\ UNCHANGED runVars

MaxLimit == 2

\* the SQL function lower, on the letters of the model
Lower(s) ==
    [i \in 1..Len(s) |-> CASE s[i] = "A" -> "a" [] s[i] = "B" -> "b" [] OTHER -> s[i]]

\* the searches: a symbols table, the usage counts the imports table gives
\* the name "a" (the subquery ic, empty when no row imports that name), the
\* query, the kind filter, the exported-only flag and the limit; pages are
\* the answers to the successive offsets 0, limit, ...
SearchInputs ==
    LET universe == {[name |-> <<"a">>, kind |-> "function", file_path |-> "x", is_exported |-> TRUE],
                     [name |-> <<"a">>, kind |-> "function", file_path |-> "y", is_exported |-> TRUE],
                     [name |-> <<"A", "b">>, kind |-> "class", file_path |-> "x", is_exported |-> FALSE]}
    IN {[fn |-> "search", symbols |-> t, ic |-> u, query |-> q, kind |-> k, exported |-> e,
         limit |-> l, pages |-> <<>>] :
            t \in SUBSET universe,
            u \in {<<>>, <<[usage_count |-> 2, internal_usage |-> 1]>>},
            q \in {<<"a">>, <<"A", "B">>}, k \in {None, Some("function")},
            e \in BOOLEAN, l \in 1..MaxLimit}

\* search.rs query_symbols before LIMIT and OFFSET: the orders in which the
\* SQL runtime may return the rows that pass the WHERE clause; ORDER BY fixes
\* the order of two rows only when they differ in the sort key
query_symbols(symbols, ic, query, kind, exported) ==
    LET matching == {r \in symbols :
                        /\ Like(Lower(r.name), Lower(<<"%">> \o query \o <<"%">>))
                        /\ IsSome(kind) => r.kind = Unwrap(kind)
                        /\ exported => r.is_exported}
        joined(r) == IsSome(ic) /\ r.name = <<"a">> /\ r.is_exported
        internal_usage(r) == IF joined(r) THEN Unwrap(ic).internal_usage ELSE 0
        usage_count(r) == IF joined(r) THEN Unwrap(ic).usage_count ELSE 0
        exact(r) == IF Lower(r.name) = Lower(query) THEN 0 ELSE 1
        rank(c) == CHOOSE i \in 1..4 : <<"A", "B", "a", "b">>[i] = c
        NameLess(a, b) ==
            \E i \in 1..Len(a) : /\ i <= Len(b)
                                 /\ SubSeq(a, 1, i - 1) = SubSeq(b, 1, i - 1)
                                 /\ rank(a[i]) < rank(b[i])
        key(r) == <<exact(r), 0 - internal_usage(r), 0 - usage_count(r), Len(r.name)>>
        Before(a, b) ==
            \/ \E i \in 1..4 : /\ \A j \in 1..(i - 1) : key(a)[j] = key(b)[j]
                               /\ key(a)[i] < key(b)[i]
            \/ key(a) = key(b) /\ NameLess(a.name, b.name)
        n == Cardinality(matching)
    IN {o \in [1..n -> matching] :
          /\ \A i, j \in 1..n : i # j => o[i] # o[j]
          /\ \A i, j \in 1..n : i < j => ~Before(o[j], o[i])}

\* LIMIT limit OFFSET offset
Page(order, limit, offset) ==
    SubSeq(order, offset + 1, IF offset + limit < Len(order) THEN offset + limit ELSE Len(order))

\* search.rs run_search, called for the next page
CallSearch ==
    /\ call.fn = "search"
    /\ Len(call.pages) < 2
    /\ \E order \in query_symbols(call.symbols, call.ic, call.query, call.kind, call.exported) :
          call' = [call EXCEPT !.pages =
                      Append(@, Page(order, call.limit, Len(call.pages) * call.limit))]
    /\ UNCHANGED runVars

RECURSIVE TrimEndMatches(_, _)
\* str::trim_end_matches(pattern): the pattern is removed as often as it ends
\* the string
TrimEndMatches(s, p) ==
    IF p # <<>> /\ EndsWith(s, p)
    THEN TrimEndMatches(SubSeq(s, 1, Len(s) - Len(p)), p)
    ELSE s

RECURSIVE TrimStartMatches(_, _)
\* str::trim_start_matches(pattern)
TrimStartMatches(s, p) ==
    IF p # <<>> /\ StartsWith(s, p)
    THEN TrimStartMatches(SubSeq(s, Len(p) + 1, Len(s)), p)
    ELSE s

\* the file paths given to dependents and the imports tables they are asked of
DependentsInputs ==
    LET paths == {<<"a", ".", "t", "s">>, <<"a", ".", "r", "s">>,
                  <<".", "/", "a", ".", "j", "s">>, <<"_", ".", "p", "y">>}
        rows == {[source_file |-> "x", line |-> 1, module_specifier |-> <<".", "/", "a">>],
                 [source_file |-> "x", line |-> 2, module_specifier |-> <<"a", ".", "r", "s">>],
                 [source_file |-> "y", line |-> 1, module_specifier |-> <<"b">>]}
    IN {[fn |-> "dependents", imports |-> t, file_path |-> f, returned |-> FALSE, rows |-> {}] :
            t \in SUBSET rows, f \in paths}

\* dependents.rs query_dependents: the rows of the answer (their order, by
\* source_file and line, is left out)
query_dependents(imports, file_path) ==
    LET stem == TrimEndMatches(TrimEndMatches(TrimEndMatches(TrimEndMatches(
                    TrimStartMatches(file_path, <<".", "/">>),
                    <<".", "t", "s">>), <<".", "t", "s", "x">>),
                    <<".", "j", "s">>), <<".", "j", "s", "x">>)
    IN {r \in imports : Like(r.module_specifier, <<"%">> \o stem \o <<"%">>)}

\* dependents.rs run_dependents on an engine that has the imports view
CallDependents ==
    /\ call.fn = "dependents"
    /\ ~call.returned
    /\ call' = [call EXCEPT !.returned = TRUE,
                            !.rows = query_dependents(call.imports, call.file_path)]
    /\ UNCHANGED runVars

MaxLines == 3

\* the calls of read: the lines of the file (content.lines()), each line
\* standing for its own text, and the optional start_line and end_line
ReadInputs ==
    LET bound == {None} \cup {Some(n) : n \in 0..(MaxLines + 1)}
    IN {[fn |-> "read", lines |-> [i \in 1..t |-> i], start_line |-> a, end_line |-> b,
         returned |-> FALSE, panicked |-> FALSE, out |-> <<>>] :
            t \in 0..MaxLines, a \in bound, b \in bound}

\* read.rs format_lines: the output lines, each the line number with the
\* line, or the panic of the slice lines[start..end] when start is above end
format_lines(lines, start_line, end_line) ==
    LET total == Len(lines)
        start == IF IsSome(start_line)
                 THEN (IF Unwrap(start_line) >= 1 THEN Unwrap(start_line) - 1 ELSE 0)
                 ELSE 0
        end == IF IsSome(end_line)
               THEN (IF Unwrap(end_line) < total THEN Unwrap(end_line) ELSE total)
               ELSE total
    IN IF start >= total THEN [panicked |-> FALSE, out |-> <<>>]
       ELSE IF start > end THEN [panicked |-> TRUE, out |-> <<>>]
       ELSE [panicked |-> FALSE,
             out |-> [i \in 1..(end - start) |->
                        [line_num |-> start + (i - 1) + 1, line |-> lines[start + i]]]]

\* read.rs run_read on a file that exists
CallRead ==
    /\ call.fn = "read"
    /\ ~call.returned
    /\ LET r == format_lines(call.lines, call.start_line, call.end_line)
       IN call' = [call EXCEPT !.returned = TRUE, !.panicked = r.panicked, !.out = r.out]
    /\ UNCHANGED runVars

MaxCellLen == 2

RECURSIVE ReplaceStr(_, _, _)
\* str::replace(c, to): every character c of s becomes the text to
ReplaceStr(s, c, to) ==
    IF s = <<>> THEN <<>>
    ELSE (IF Head(s) = c THEN to ELSE <<Head(s)>>) \o ReplaceStr(Tail(s), c, to)

\* the CSV-safe quoting of a text cell, the same expression in format.rs
\* format_csv, overview.rs run_overview and main.rs run_raw_query
CsvCell(s) ==
    IF Contains(s, ",") \/ Contains(s, "\"")
    THEN <<"\"">> \o ReplaceStr(s, "\"", <<"\"", "\"">>) \o <<"\"">>
    ELSE s

\* one data line of the CSV output of a report, for a row of two text
\* cells; in the overview CSV they are the columns file and
\* exported_symbols (directory and language are written like file, the
\* other columns are numbers)
CsvLine(report, cells) ==
    CASE report = "overview" -> cells[1] \o <<",">> \o CsvCell(cells[2])
      [] OTHER -> CsvCell(cells[1]) \o <<",">> \o CsvCell(cells[2])

\* rows of two text cells given to the CSV output of a report: the generic
\* report formatter, the overview CSV, the raw query
CsvInputs ==
    {[fn |-> "csv", report |-> r, cells |-> <<a, b>>, returned |-> FALSE, line |-> <<>>] :
        r \in {"format_csv", "overview", "run_raw_query"},
        a \in Texts({",", "\"", "a"}, MaxCellLen),
        b \in Texts({",", "\"", "a"}, MaxCellLen)}

\* the report writes the data line of the row
CallFormatCsv ==
    /\ call.fn = "csv"
    /\ ~call.returned
    /\ call' = [call EXCEPT !.returned = TRUE, !.line = CsvLine(call.report, call.cells)]
    /\ UNCHANGED runVars

MaxParamLen == 3

\* variant of SqlQuote: the parameter is inserted as it is
SqlQuoteRaw(value) == value

\* the escaping of a string parameter, `.replace('\'', "''")`
SqlQuote(value) == ReplaceStr(value, "'", <<"'", "'">>)

\* the SQL text of a condition on a string parameter, between the text before
\* it (k=) and the text after it ( L): template "eq" is `= '{}'`, "contains"
\* is `LIKE '%{}%'`, "prefix" is `LIKE '{}%'`
ReportSql(template, value) ==
    <<"k", "=", "'">>
        \o (IF template = "contains" THEN <<"%">> ELSE <<>>)
        \o SqlQuote(value)
        \o (IF template \in {"contains", "prefix"} THEN <<"%">> ELSE <<>>)
        \o <<"'", " ", "L">>

\* the string parameters a report is called with
SqlInputs ==
    {[fn |-> "sql", template |-> t, value |-> v, returned |-> FALSE, sql |-> <<>>] :
        t \in {"eq", "contains", "prefix"}, v \in Texts({"'", "a", " "}, MaxParamLen)}

\* a report formats its statement
CallReportSql ==
    /\ call.fn = "sql"
    /\ ~call.returned
    /\ call' = [call EXCEPT !.returned = TRUE, !.sql = ReportSql(call.template, call.value)]
    /\ UNCHANGED runVars

\* the stores the files report is asked of: the paths of the files table
\* and the rows of the imports table (source_file, module_specifier)
FilesInputs ==
    LET paths == {<<"d", "/", "a", ".", "c">>, <<"b">>}
        rows == {[source_file |-> sf, module_specifier |-> m] :
                    sf \in {<<"d", "/", "a", ".", "c">>, <<"b">>},
                    m \in {<<".">>, <<"/", "a">>, <<"x">>}}
    IN {[fn |-> "files", files |-> f, imports |-> t, returned |-> FALSE, rows |-> {}] :
            f \in SUBSET paths \ {{}}, t \in {u \in SUBSET rows : Cardinality(u) <= MaxImports}}

\* files.rs query_files with the imports view and no filter, before LIMIT and
\* OFFSET: files LEFT JOIN imp (one group per source_file) LEFT JOIN dep (one
\* group per module_specifier that starts with '.' or '/') ON f.path LIKE
\* '%' || dep.module_specifier || '%'; a row of the answer per pair of the
\* join, told apart here by the dep group it came from
query_files(files, imports) ==
    LET import_count(f) == Cardinality({r \in imports : r.source_file = f})
        dep == {m \in {r.module_specifier : r \in imports} :
                    Like(m, <<".", "%">>) \/ Like(m, <<"/", "%">>)}
        dependent_count(m) ==
            Cardinality({r.source_file : r \in {x \in imports : x.module_specifier = m}})
        joined(f) == {m \in dep : Like(f, <<"%">> \o m \o <<"%">>)}
    IN UNION {IF joined(f) = {}
              THEN {[path |-> f, import_count |-> import_count(f),
                     dependent_count |-> 0, dep |-> None]}
              ELSE {[path |-> f, import_count |-> import_count(f),
                     dependent_count |-> dependent_count(m), dep |-> Some(m)] :
                        m \in joined(f)} :
              f \in files}

\* files.rs run_files
CallFiles ==
    /\ call.fn = "files"
    /\ ~call.returned
    /\ call' = [call EXCEPT !.returned = TRUE, !.rows = query_files(call.files, call.imports)]
    /\ UNCHANGED runVars

ExtractInit ==
    /\ Idle
    /\ \/ call \in GoImportSpecs
       \/ call \in CommentTexts
       \/ call \in PyItems
       \/ call \in Stores
       \/ call \in ModuleTreeInputs
       \/ call \in BarrelInputs
       \/ call \in SearchInputs
       \/ call \in DependentsInputs
       \/ call \in ReadInputs
       \/ call \in CsvInputs
       \/ call \in SqlInputs
       \/ call \in FilesInputs

ExtractNext ==
    \/ CallGoImports
    \/ CallClassifyComment
    \/ CallPythonSymbols
    \/ CallQueryEngineNew
    \/ CallRunReport
    \/ CallBuildModuleTree
    \/ CallBarrelFiles
    \/ CallSearch
    \/ CallDependents
    \/ CallRead
    \/ CallFormatCsv
    \/ CallReportSql
    \/ CallFiles

ExtractSpec == ExtractInit /\ [][ExtractNext]_vars


(***************************************************************************)
(* Properties.                                                             *)
(***************************************************************************)
Range(q) == {q[i] : i \in 1..Len(q)}

\* the multiset of the elements of a sequence
SeqToBag(q) == [x \in Range(q) |-> Cardinality({i \in 1..Len(q) : q[i] = x})]

\* the rows of a table file
TableRows(t) == disk[t].rows

\* run_parse returned Ok after writing the tables
Finished == pc = "done" /\ writes["errors"] = 1

Succeeded(i) == task[i].result.tag = "Success"
Rejected(i) == task[i].result.tag = "Error"
NumSucceeded == Cardinality({i \in 1..Len(task) : Succeeded(i)})
NumRejected == Cardinality({i \in 1..Len(task) : Rejected(i)})

ConfigurationErrors ==
    {"invalid directory", "unreadable root", "no valid languages specified",
     "failed to create output dir", "failed to write table"}

PerFileErrorTypes == {"parser_creation", "file_read", "parse_failure"}

\* C1: a run fails only for an unreadable root, an empty language list or an
\* output directory / table that cannot be written; for every set of files
\* and every order of the tasks a parser-creation, file-read or parse failure
\* of a file becomes an Error row (one per rejected file), no task brings the
\* run down, and the rows reach the errors table.
C1_Original ==
    /\ pc = "failed" => err \in ConfigurationErrors
    /\ pc # "panicked"
    /\ pc \in {"mkdir", "write", "done"} =>
         /\ Len(all_errors) = Cardinality({i \in 1..Len(task) : task[i].failed # "none"})
         /\ \A i \in 1..Len(task) :
              task[i].failed # "none" =>
                \E k \in 1..Len(all_errors) :
                    /\ all_errors[k].file_path = RelativePath(supported_files[i])
                    /\ all_errors[k].error_type \in PerFileErrorTypes
    /\ Finished => TableRows("errors") = all_errors

InFiles(path) == \E k \in 1..Len(TableRows("files")) : TableRows("files")[k].path = path
InErrors(path) ==
    \E k \in 1..Len(TableRows("errors")) : TableRows("errors")[k].file_path = path

ExactlyOne(path) == (InFiles(path) /\ ~InErrors(path)) \/ (~InFiles(path) /\ InErrors(path))

\* C2: after an extraction run, the file_path / source_file of every row of
\* the symbols, imports and comments tables appears in exactly one of the
\* files table and the errors table, never in both.
C2_Original ==
    Finished =>
        /\ \A k \in 1..Len(TableRows("symbols")) : ExactlyOne(TableRows("symbols")[k].file_path)
        /\ \A k \in 1..Len(TableRows("imports")) : ExactlyOne(TableRows("imports")[k].source_file)
        /\ \A k \in 1..Len(TableRows("comments")) : ExactlyOne(TableRows("comments")[k].file_path)

\* the number of files discovery returned to a run that went on
NumDiscovered == Len(supported_files) + Len(unsupported_files)

\* the scenario of C3: two supported files whose parsers can be created, one
\* unreadable and one well-formed, on a tree nobody modifies
C3_Scenario ==
    /\ Finished
    /\ ~fsChanged
    /\ NumDiscovered = 2
    /\ Len(supported_files) = 2
    /\ \A i \in 1..2 : task[i].lang \notin brokenParsers
    /\ \E i, j \in 1..2 :
         /\ fs[supported_files[i]] = "bin"
         /\ fs[supported_files[j]] \in {"cA", "rA"}

\* C3 as stated: the files table has one row for every discovered file, also
\* for a supported file whose read failed; in the scenario two files rows,
\* one errors row of type file_read, symbols of the well-formed file only.
C3_Original ==
    /\ Finished => Len(TableRows("files")) = NumDiscovered
    /\ C3_Scenario =>
         /\ Len(TableRows("files")) = 2
         /\ Len(TableRows("errors")) = 1
         /\ TableRows("errors")[1].error_type = "file_read"

\* C3 as amended: the files table has one row for every unsupported file and
\* every supported file that was extracted; every rejected supported file has
\* an errors row and no files row; in the scenario one files row, one errors
\* row of type file_read, exactly the symbols of the well-formed file.
C3_Amended ==
    /\ Finished =>
         /\ Len(TableRows("files")) = Len(unsupported_files) + NumSucceeded
         /\ Len(TableRows("errors")) = NumRejected
         /\ NumSucceeded + NumRejected = Len(supported_files)
         /\ \A i \in 1..Len(task) :
              task[i].failed = "read" =>
                \E k \in 1..Len(TableRows("errors")) :
                    /\ TableRows("errors")[k].file_path = RelativePath(supported_files[i])
                    /\ TableRows("errors")[k].error_type = "file_read"
    /\ C3_Scenario =>
         /\ Len(TableRows("files")) = 1
         /\ Len(TableRows("errors")) = 1
         /\ TableRows("errors")[1].error_type = "file_read"
         /\ \E j \in 1..2 :
              /\ Succeeded(j)
              /\ TableRows("files")[1] = task[j].result.metadata
              /\ TableRows("symbols") = task[j].result.syms
              /\ TableRows("symbols") # <<>>

C3_Witness == C3_Scenario /\ Len(TableRows("symbols")) = 2

AllWrittenOnce ==
    /\ outDirExists
    /\ \A t \in Tables :
         /\ writes[t] = 1
         /\ disk[t].present
         /\ disk[t].rows = RowsFor(t)

C5_SameMultisets ==
    (run = 2 /\ Finished /\ ~fsChanged) =>
        \A t \in Tables : SeqToBag(TableRows(t)) = SeqToBag(prev[t].rows)

\* a repeat run over two supported files has written rows to the tables
C5_Witness ==
    /\ run = 2
    /\ Finished
    /\ ~fsChanged
    /\ Len(supported_files) = 2
    /\ NumSucceeded = 2
    /\ Len(TableRows("imports")) > 2

Merged == pc \in {"mkdir", "write", "done"} /\ task # <<>>

OfFile(path, stream, column) ==
    SelectSeq(stream, LAMBDA r : r[column] = path)

\* C6: in the merged symbols, imports and comments streams, and in the tables
\* written from them, the rows of one file are the rows its extractor
\* emitted, in the order it emitted them, for every order of the tasks.
C6_IntraFileOrder ==
    /\ Merged =>
         \A i \in 1..Len(task) :
            Succeeded(i) =>
                LET res == task[i].result
                    path == res.metadata.path
                IN /\ OfFile(path, all_symbols, "file_path") = res.syms
                   /\ OfFile(path, all_imports, "source_file") = res.imps
                   /\ OfFile(path, all_comments, "file_path") = res.cmts
    /\ Finished =>
         /\ TableRows("symbols") = all_symbols
         /\ TableRows("imports") = all_imports
         /\ TableRows("comments") = all_comments

\* two files were merged, each with more than one import row
C6_Witness ==
    /\ Merged
    /\ \E i, j \in 1..Len(task) :
         /\ i # j
         /\ Succeeded(i) /\ Len(task[i].result.imps) > 1
         /\ Succeeded(j) /\ Len(task[j].result.imps) > 1
         /\ Len(task[i].result.syms) > 1

\* no two running tasks hold the same parser instance
C7_ParsersApart ==
    \A i, j \in 1..Len(task) :
        (i # j /\ task[i].parser # 0 /\ task[j].parser # 0) =>
            task[i].parser # task[j].parser

\* a step of the parallel phase: the compiled queries are not written, one
\* task at most writes, only its own record, and the output vectors are
\* written only by the merge, once every task has finished
C7_Step ==
    pc = "phase4" =>
        /\ query_map' = query_map
        /\ compiles' = compiles
        /\ Len(task') = Len(task)
        /\ \A i, j \in 1..Len(task) :
              (task'[i] # task[i] /\ task'[j] # task[j]) => i = j
        /\ outVars' # outVars => (AllTasksDone /\ task' = task /\ pc' = "mkdir")

\* C7: during the parallel phase every task uses a parser instance no other
\* task uses, the compiled queries are only read, a task writes its own
\* record only, and the results reach the shared output vectors only in the
\* serial merge after all tasks have finished.
C7_NoSharedState == [](C7_ParsersApart) /\ [][C7_Step]_vars

\* two tasks are running at once, each with its parser
C7_Witness ==
    /\ pc = "phase4"
    /\ \E i, j \in 1..Len(task) :
         /\ i # j
         /\ task[i].pc = "parser" /\ task[i].parser # 0
         /\ task[j].pc = "source" /\ task[j].parser # 0

\* C8: the error_type of every Error row names the step that failed:
\* parser_creation iff the parser could not be created, file_read iff reading
\* the contents of the file failed, parse_failure iff the parser produced no
\* tree from contents that were read.
C8_Original ==
    \A i \in 1..Len(task) :
        Rejected(i) =>
            LET et == task[i].result.error.error_type
            IN /\ et = "parser_creation" <=> task[i].failed = "create_parser"
               /\ et = "file_read" <=> task[i].failed \in {"read", "parse_file_read"}
               /\ et = "parse_failure" <=> task[i].failed = "parse"

\* C9: when the parallel phase starts the bundles of every selected language
\* have been compiled exactly once, and none of any other language.
C9_Original ==
    pc = "phase4" =>
        \A l \in Language :
            compiles[l] = IF l \in Range(languages) THEN 1 ELSE 0

SameSpecifier(a, b) == a.module_specifier = b.module_specifier

DirectiveText(i, row) == Lines(task[i].source)[row.line + 1].text

C11_Original ==
    \A i \in 1..Len(task) :
        (Succeeded(i) /\ task[i].lang = "rust") =>
            \A k \in 1..Len(task[i].result.imps) :
                LET row == task[i].result.imps[k]
                IN row.is_external = ~IsInternalUse(row.module_specifier)

\* an import extractor called on its own has returned
ImportsReturned == call.fn \in {"go_imports"} /\ call.returned

\* C12: every Import row an extractor produces, from any source text, has a
\* non-empty imported_name and a non-empty local_name.
C12_Original ==
    ImportsReturned =>
        \A k \in 1..Len(call.rows) :
            /\ call.rows[k].imported_name # <<>>
            /\ call.rows[k].local_name # <<>>

\* C13: no Import row has an empty module_specifier: a directive whose
\* specifier is empty once its quotes or angle brackets are stripped gives
\* no row.
C13_Original ==
    \A i \in 1..Len(task) :
        Succeeded(i) =>
            \A k \in 1..Len(task[i].result.imps) :
                task[i].result.imps[k].module_specifier # <<>>

\* the items of a grouped use: the pieces between the braces that are not
\* blank
GroupItems(text) ==
    SelectSeq(Split(SubSeq(text, Find(text, <<"{">>) + 1, RFind(text, <<"}">>) - 1), <<",">>),
              LAMBDA item : Trim(item) # <<>>)

\* C14: a grouped use with n items gives exactly n Import rows, one per item
\* and in their order; the module_specifier of each is the path of the item
\* without alias text, and its local_name is the alias of the item when the
\* item has one.
C14_Original ==
    \A i \in 1..Len(task) :
        (Succeeded(i) /\ task[i].lang = "rust") =>
            \A n \in 1..Len(Lines(task[i].source)) :
                LET line == Lines(task[i].source)[n]
                    rows == SelectSeq(task[i].result.imps, LAMBDA r : r.line = n - 1)
                IN (line.node = "use_declaration" /\ Find(line.text, <<"{">>) # 0) =>
                       /\ Len(rows) = Len(GroupItems(line.text))
                       /\ \A k \in 1..Len(rows) :
                            LET sp == SplitOnce(Trim(GroupItems(line.text)[k]), AsKeyword)
                            IN /\ Find(rows[k].module_specifier, AsKeyword) = 0
                               /\ IsSome(sp) => rows[k].local_name = Trim(Unwrap(sp)[2])

\* C16: in every Comment row associated_symbol_kind is non-null only when
\* associated_symbol is non-null.
C16_Original ==
    \A i \in 1..Len(task) :
        Succeeded(i) =>
            \A k \in 1..Len(task[i].result.cmts) :
                IsSome(task[i].result.cmts[k].associated_symbol_kind) =>
                    IsSome(task[i].result.cmts[k].associated_symbol)

\* classify_comment has returned
Classified == call.fn = "classify_comment" /\ call.returned

\* the comment text without leading white space begins with p
Opens(p) == StartsWith(TrimStart(call.text), p)

\* C15 as stated: in every extractor a comment that begins with /**, ///,
\* //! or /*! has kind doc, any other comment that begins with /* has kind
\* block, and every remaining comment has kind line.
C15_Original ==
    Classified =>
        call.kind = IF \E p \in DocDelimiters : Opens(p) THEN "doc"
                    ELSE IF Opens(<<"/", "*">>) THEN "block"
                    ELSE "line"

\* C15 as amended: the delimiters that make a comment doc depend on the
\* language: /** in every language but Go, /// in C, C++, C# and Rust, //!
\* and /*! in Rust only, none in Go; any other comment that begins with /*
\* has kind block and every remaining comment has kind line.
C15_Amended ==
    Classified =>
        LET doc == \/ Opens(<<"/", "*", "*">>) /\ call.lang # "go"
                   \/ Opens(<<"/", "/", "/">>) /\ call.lang \in {"c", "cpp", "csharp", "rust"}
                   \/ Opens(<<"/", "/", "!">>) /\ call.lang = "rust"
                   \/ Opens(<<"/", "*", "!">>) /\ call.lang = "rust"
        IN call.kind = IF doc THEN "doc"
                       ELSE IF Opens(<<"/", "*">>) THEN "block"
                       ELSE "line"

\* a Go comment that opens with /** was classified block
C15_Witness ==
    /\ Classified
    /\ call.lang = "go"
    /\ call.text = <<"/", "*", "*">>
    /\ call.kind = "block"

\* C17: a decorated Python function or class gives exactly one Symbol row:
\* its name and kind are those of the inner definition, its span is the span
\* of the decorated node, and the inner definition gives no row of its own.
C17_DecoratedOnce ==
    (call.fn = "python_symbols" /\ call.returned /\ call.decorators > 0) =>
        /\ Len(call.rows) = 1
        /\ call.rows[1].name = call.name
        /\ call.rows[1].kind =
              IF call.inner = "class_definition" THEN "class"
              ELSE IF call.owner = "class_definition" THEN "method"
              ELSE "function"
        /\ call.rows[1].start_line = 0
        /\ call.rows[1].end_line = call.decorators + 1

\* a method under two decorators gave its one row
C17_Witness ==
    /\ call.fn = "python_symbols"
    /\ call.returned
    /\ call.decorators = 2
    /\ call.owner = "class_definition"
    /\ call.inner = "function_definition"
    /\ Len(call.rows) = 1
    /\ call.rows[1].kind = "method"

\* C18: building the query engine fails when the files or the symbols table
\* file is missing; when it succeeds the views files and symbols exist and
\* each of imports, comments and errors exists exactly when its table file is
\* in the directory.
C18_ViewsIffPresent ==
    (call.fn = "query" /\ call.stage # "start") =>
        /\ ~(RequiredTables \subseteq call.present) => ~call.engine.ok
        /\ call.engine.ok =>
              /\ RequiredTables \subseteq call.engine.views
              /\ \A v \in OptionalTables : v \in call.engine.views <=> v \in call.present

\* an engine built over files, symbols and comments only
C18_Witness ==
    /\ call.fn = "query"
    /\ call.stage = "engine"
    /\ call.engine.ok
    /\ call.present = {"files", "symbols", "comments"}
    /\ call.engine.views = {"files", "symbols", "comments"}

\* C19: over a legacy imports table the is_external of the view equals
\* is_external_specifier of the row's module_specifier, true exactly when the
\* specifier starts with neither '.' nor '#'.
C19_SynthesizedAgrees ==
    (call.fn = "query" /\ call.stage # "start" /\ call.engine.ok
        /\ call.legacy /\ "imports" \in call.present) =>
        /\ call.engine.is_external = Some(is_external_specifier(call.module_specifier))
        /\ Unwrap(call.engine.is_external) <=>
              \/ call.module_specifier = <<>>
              \/ Head(call.module_specifier) \notin {".", "#"}

\* the view over a legacy table marked the specifier "#a" internal
C19_Witness ==
    /\ call.fn = "query"
    /\ call.stage = "engine"
    /\ call.legacy
    /\ call.module_specifier = <<"#", "a">>
    /\ call.engine.is_external = Some(FALSE)

\* C20 as stated: over a store holding only files and symbols every report
\* returns successfully.
C20_Original ==
    (call.fn = "query" /\ call.stage = "done" /\ call.present = RequiredTables) =>
        call.result.ok

\* C20 as the code has it: over a store holding only files and symbols the
\* reports overview, outline, search and files return successfully and leave
\* out what needs the imports table; deps, dependents, callers, imports,
\* comments and errors fail, reporting that their table file was not found.
C20_Amended ==
    (call.fn = "query" /\ call.stage = "done" /\ call.present = RequiredTables) =>
        IF call.report \in {"overview", "outline", "search", "files"}
        THEN /\ call.result.ok
             /\ call.result.sections \subseteq RequiredTables
        ELSE /\ ~call.result.ok
             /\ call.result.err = "parquet not found"

\* search returned over a store holding only files and symbols
C20_Witness ==
    /\ call.fn = "query"
    /\ call.stage = "done"
    /\ call.present = RequiredTables
    /\ call.report = "search"
    /\ call.result.ok
    /\ call.result.sections = {"symbols"}

\* C21: every directory node of the module tree, root nodes included, has
\* depth at most the depth passed to the overview report.
C21_Original ==
    (call.fn = "module_tree" /\ call.returned) =>
        \A n \in DOMAIN call.nodes : dir_depth(n) <= call.max_depth

\* the directories with files strictly beneath the directory n
DirsBeneath(n) ==
    {d \in DOMAIN call.dir_stats : Len(d) > Len(n) /\ SubSeq(d, 1, Len(n)) = n}

\* C22: every synthetic intermediate node of the module tree reports the
\* file_count and total_lines totals of all directories beneath it in the
\* store, for every depth limit.
C22_Original ==
    (call.fn = "module_tree" /\ call.returned) =>
        \A n \in DOMAIN call.nodes \ DOMAIN call.dir_stats :
            /\ call.nodes[n].file_count =
                  SetSum([d \in DirsBeneath(n) |-> call.dir_stats[d].file_count],
                         DirsBeneath(n))
            /\ call.nodes[n].total_lines =
                  SetSum([d \in DirsBeneath(n) |-> call.dir_stats[d].total_lines],
                         DirsBeneath(n))

\* C23: every file listed under barrel files has re-exports as a majority of
\* its imports: more than half of its import rows have kind re_export.
C23_Original ==
    (call.fn = "barrel_files" /\ call.returned) =>
        \A b \in call.barrel_files : 2 * b.re_export_count > b.total_imports

\* C24: the pages search returns for the offsets 0 and L are the rows at the
\* positions 0..L and L..2L of one and the same list of the matching symbols
\* sorted by the key.
C24_Original ==
    (call.fn = "search" /\ Len(call.pages) = 2) =>
        \E order \in query_symbols(call.symbols, call.ic, call.query, call.kind, call.exported) :
            \A j \in 1..2 : call.pages[j] = Page(order, call.limit, (j - 1) * call.limit)

\* the path with its extension removed
StemOf(path) ==
    IF RFind(path, <<".">>) > 1 THEN SubSeq(path, 1, RFind(path, <<".">>) - 1) ELSE path

\* C25: dependents returns exactly the Import rows whose module_specifier
\* contains, as a literal substring, the stem of the given file path, for a
\* file path of any supported language.
C25_Original ==
    (call.fn = "dependents" /\ call.returned) =>
        call.rows = {r \in call.imports : Find(r.module_specifier, StemOf(call.file_path)) # 0}

\* the line numbers read is asked for: start_line up to the smaller of
\* end_line and the number of lines, start_line 1 and end_line the number of
\* lines when they are not given
LinesAsked ==
    LET first == IF IsSome(call.start_line) THEN Unwrap(call.start_line) ELSE 1
        last == IF IsSome(call.end_line) /\ Unwrap(call.end_line) < Len(call.lines)
                THEN Unwrap(call.end_line) ELSE Len(call.lines)
    IN {n \in 1..Len(call.lines) : first <= n /\ n <= last}

\* C26: for every content and every optional start_line and end_line, read
\* returns without crashing exactly the lines n with start_line <= n <=
\* min(end_line, number of lines), in order, each with its line number n.
C26_Original ==
    (call.fn = "read" /\ call.returned) =>
        /\ ~call.panicked
        /\ Len(call.out) = Cardinality(LinesAsked)
        /\ \A i \in 1..Len(call.out) :
              /\ call.out[i].line_num \in LinesAsked
              /\ call.out[i].line = call.lines[call.out[i].line_num]
              /\ i > 1 => call.out[i - 1].line_num < call.out[i].line_num

RECURSIVE CsvFieldCount(_, _)
\* the number of fields a CSV reader finds in a line: one more than its
\* commas outside double quotes
CsvFieldCount(line, quoted) ==
    IF line = <<>> THEN 1
    ELSE IF Head(line) = "\"" THEN CsvFieldCount(Tail(line), ~quoted)
    ELSE IF Head(line) = "," /\ ~quoted THEN 1 + CsvFieldCount(Tail(line), quoted)
    ELSE CsvFieldCount(Tail(line), quoted)

\* C27: in the CSV output of every report a data line has exactly as many
\* fields as the header line, whatever commas and double quotes the cells
\* hold.
C27_Original ==
    (call.fn = "csv" /\ call.returned) =>
        CsvFieldCount(call.line, FALSE) = Len(call.cells)

RECURSIVE SqlLiteralEnd(_, _)
\* the position in sql of the quote that closes the string literal whose text
\* starts at position i: a doubled quote is a quote of the text; 0 when the
\* literal is never closed
SqlLiteralEnd(sql, i) ==
    IF i > Len(sql) THEN 0
    ELSE IF sql[i] # "'" THEN SqlLiteralEnd(sql, i + 1)
    ELSE IF i < Len(sql) /\ sql[i + 1] = "'" THEN SqlLiteralEnd(sql, i + 2)
    ELSE i

RECURSIVE SqlUnquote(_)
\* the text of a string literal: every doubled quote is one quote
SqlUnquote(s) ==
    IF s = <<>> THEN <<>>
    ELSE IF Head(s) = "'" /\ Len(s) > 1 THEN <<"'">> \o SqlUnquote(Tail(Tail(s)))
    ELSE <<Head(s)>> \o SqlUnquote(Tail(s))

\* C28: whatever the value of a string parameter, the statement keeps its
\* structure: the literal opened before the parameter closes right before
\* the text that follows it in the template, and its text is the value
\* between the wildcards of the template.
C28_ValueStaysInLiteral ==
    (call.fn = "sql" /\ call.returned) =>
        LET close == SqlLiteralEnd(call.sql, 4)
        IN /\ close = Len(call.sql) - 2
           /\ SubSeq(call.sql, 1, 3) = <<"k", "=", "'">>
           /\ SubSeq(call.sql, close + 1, Len(call.sql)) = <<" ", "L">>
           /\ SqlUnquote(SubSeq(call.sql, 4, close - 1)) =
                 (IF call.template = "contains" THEN <<"%">> ELSE <<>>)
                    \o call.value
                    \o (IF call.template \in {"contains", "prefix"} THEN <<"%">> ELSE <<>>)

\* a statement was formatted for a value that holds a quote and a space
C28_Witness ==
    /\ call.fn = "sql"
    /\ call.returned
    /\ call.value = <<"'", " ", "a">>
    /\ call.sql = <<"k", "=", "'", "'", "'", " ", "a", "'", " ", "L">>

\* C29: for every supported file of a run the files row, the parse tree and
\* the rows extracted with it come from one and the same read of the file:
\* the text the extractors slice is the text the tree and the files row were
\* made from, also when the file is modified during the run.
C29_Original ==
    \A i \in 1..Len(task) :
        (task[i].pc = "done" /\ task[i].result.tag = "Success") =>
            task[i].source = task[i].parsed

\* C30: before limit and offset the files report holds at most one row per
\* path of the files table, however many import specifiers match the path in
\* the dependent-count join.
C30_Original ==
    (call.fn = "files" /\ call.returned) =>
        \A f \in call.files : Cardinality({r \in call.rows : r.path = f}) <= 1

====
